---- MODULE Spec2Model ----
(***************************************************************************)
(* A model of minet's single-request pycurl transport (minet/pycurl.py)    *)
(* and of the CrowdTangle paginated iterator with its partition strategies *)
(* (minet/crowdtangle/utils.py).                                           *)
(*                                                                         *)
(* Several specifications share the module:                                *)
(*   SpecTransport  one request_with_pycurl call, libcurl as environment   *)
(*   SpecDay        a PartitionStrategyDay instance called repeatedly      *)
(*   SpecIter       one create_iterator harvest, the API as environment    *)
(*   SpecStep       one step call on one response of the API               *)
(*   SpecHeaders    one transport call, its header lines kept per response *)
(*   SpecTimeout    the timeout options setup_curl_handle sets             *)
(*   SpecNoop       a PartitionStrategyNoop instance called repeatedly     *)
(*   SpecFuse       one harvest, the nextPage links of the API arbitrary   *)
(*   SpecLimit      a PartitionStrategyLimit instance called repeatedly    *)
(*   SpecHarvest    one harvest, its rounds kept in a trail                *)
(*   SpecDataset    one harvest against an API serving a fixed dataset     *)
(***************************************************************************)
EXTENDS Integers, Sequences, FiniteSets, TLC

VARIABLES
    \* ---- transport: request_with_pycurl and the closures of setup_curl_handle
    pc,                 \* "idle" | "performing" | "returned" | "raised"
    cancel_event,       \* "none" (no token given) | "clear" | "set"
    request,            \* [url, follow_redirects] of the call, NoRequest before it
    curl_created,       \* pycurl.Curl() was constructed (pycurl.py:253)
    performed,          \* curl.perform() was entered (pycurl.py:279)
    current_url,        \* nonlocal of header_function (pycurl.py:157)
    expecting_location_with_status, \* nonlocal of header_function, 0 is None
    stack,              \* the RedirectionStack under construction
    response_headers,   \* HTTPHeaderDict: lower-cased name -> value
    effective_url,      \* libcurl's CURLINFO_EFFECTIVE_URL
    http_code,          \* libcurl's CURLINFO_HTTP_CODE, 0 before any status line
    location_seen,      \* libcurl: a Location of the current response was taken
    result,             \* the PycurlResult returned, NoResult otherwise
    error,              \* the exception raised, NoError otherwise
    error_code,         \* error.args[0] of the pycurl.error caught, 0 if none
    \* ---- observations of the transport call, written by no code path
    cancelled_at_start, \* the token was set when the call started
    cancelled_in_flight,\* the token was set while curl.perform() was running
    status_lines,       \* the statuses of the status lines received, in order
    location_after,     \* for each status line: a Location header followed it
    \* ---- partition strategy
    today,              \* date.today(), read by day_range when it is entered
    strategy,           \* the partition strategy object
    queries,            \* SpecDay: the values its calls returned, in order
    \* ---- paginated iterator: the generator of create_iterator
    config,             \* the arguments of create_iterator
    ipc,                \* "new" | "loop" | "done" | "raised"
    N,                  \* items collected so far (utils.py:268)
    C,                  \* stepper calls made so far (utils.py:269)
    url,                \* the url of the next stepper call, NoneUrl for None
    last_url,           \* the url of the last successful stepper call
    last_items,         \* identifiers of the previous page (utils.py:272)
    raised,             \* the exception that left the generator, "" if none
    \* ---- observations of the last round of the loop, written by no code path
    round,              \* the calls made, in order: stepper and strategy
    last_page,          \* the items of the last page the stepper returned
    yielded,            \* what the round yielded to the consumer, in order
    \* ---- stepper
    response,           \* the response request() gave to the last step call
    stepped,            \* what that step call did: raise, or return
    step_url,           \* the url given to the last step call of the harvest
    \* ---- observations and inputs of the specifications of one part
    fields_after,       \* SpecHeaders: the fields received since the last
                        \* status line, in order
    timeout,            \* SpecTimeout: the timeout argument
    curl_options,       \* SpecTimeout: the timeout options set on the handle
    noop_calls,         \* SpecNoop: the calls made on the strategy, in order
    limit_calls,        \* SpecLimit: the calls made on the strategy, in order
    \* ---- a harvest followed over all its rounds
    dataset,            \* SpecDataset: the items the API serves, and its paging
    trail               \* the rounds of the harvest, in order: the iterator
                        \* before the stepper call, the page, the items yielded

tvars == <<pc, cancel_event, request, curl_created, performed, current_url,
           expecting_location_with_status, stack, response_headers,
           effective_url, http_code, location_seen, result, error,
           error_code, cancelled_at_start, cancelled_in_flight, status_lines,
           location_after>>

svars == <<today, strategy, queries>>

ivars == <<config, ipc, N, C, url, last_url, last_items, raised, round,
           last_page, yielded>>

pvars == <<response, stepped, step_url>>

ovars == <<fields_after, timeout, curl_options, noop_calls, limit_calls>>

hvars == <<dataset, trail>>

vars == <<tvars, svars, ivars, pvars, ovars, hvars>>

-----------------------------------------------------------------------------
(* Bounds of the model *)

\* status lines (responses, one per hop) libcurl receives during one call;
\* the header fields between them are unbounded
MaxStatusLines == 3

\* days between the start date given to the Day strategy and today
MaxBack == 4

\* calls made to one Day strategy
MaxDayCalls == 7

\* stepper calls of one harvest
MaxCalls == 3

\* header fields kept per response in SpecHeaders
MaxFields == 2

\* calls made to one Noop strategy
MaxNoopCalls == 4

\* calls made to one Limit strategy
MaxLimitCalls == 5

\* stepper calls of one harvest against a dataset
MaxTurns == 8

-----------------------------------------------------------------------------
(* URLs.  A URL is [scheme, host, path]; a relative reference has an empty  *)
(* scheme and host.                                                         *)

Url(s, h, p) == [scheme |-> s, host |-> h, path |-> p]

NoUrl == Url("", "", "")

\* the URLs a caller may pass: two well-formed ones (one with an upper-case
\* host), one without protocol, one whose host has no known TLD
RequestUrls ==
    { Url("http", "a.io", "/"), Url("http", "A.io", "/"),
      Url("", "a.io", "/"), Url("http", "nowhere", "/") }

\* the values a Location header may carry: absolute or relative
LocationValues == { Url("http", "b.io", "/"), Url("", "", "/p") }

LowerHost(h) == IF h = "A.io" THEN "a.io" ELSE h

\* ural.is_url(url, require_protocol=True, tld_aware=True, ...)
is_url(u) == u.scheme # "" /\ LowerHost(u.host) \in {"a.io", "b.io"}

\* parse_url(url).url: urllib3 normalises the host to lower case
sanitize_url(u) == Url(u.scheme, LowerHost(u.host), u.path)

\* urllib.parse.urljoin(base, value)
urljoin(base, value) ==
    IF value.scheme # "" THEN value
    ELSE IF value.host # "" THEN Url(base.scheme, value.host, value.path)
    ELSE Url(base.scheme, base.host, value.path)

-----------------------------------------------------------------------------
(* Header lines, after rstrip() and decoding: a status line "HTTP/x s ...", *)
(* a field "name: value", or a line without colon (the blank line).         *)

StatusLine(s) == [kind |-> "status", status |-> s, name |-> "", value |-> NoUrl]
FieldLine(n, v) == [kind |-> "field", status |-> 0, name |-> n, value |-> v]
BlankLine == [kind |-> "blank", status |-> 0, name |-> "", value |-> NoUrl]

Statuses == {200, 301, 302}

HeaderLines ==
    { StatusLine(s) : s \in Statuses }
    \cup { FieldLine("Location", Url("http", "b.io", "/")),
           FieldLine("location", Url("", "", "/p")),
           FieldLine("Server", Url("", "", "x")) }
    \cup { BlankLine }

\* str.lower() on the header names of the model
Lower(n) == IF n = "Location" THEN "location"
            ELSE IF n = "Server" THEN "server" ELSE n

\* minet.constants.REDIRECT_STATUSES
REDIRECT_STATUSES == {301, 302, 303, 307, 308}

Redirection(u, t, s) == [url |-> u, type |-> t, status |-> s]

-----------------------------------------------------------------------------
(* pycurl error codes used by coerce_error, and two it does not name *)

E_ABORTED_BY_CALLBACK == 42
E_TOO_MANY_REDIRECTS == 47
E_OPERATION_TIMEDOUT == 28
E_COULDNT_RESOLVE_HOST == 6
E_COULDNT_CONNECT == 7
E_PEER_FAILED_VERIFICATION == 60
E_SSL_CONNECT_ERROR == 35
E_RECV_ERROR == 56
E_GOT_NOTHING == 52
E_WRITE_ERROR == 23

\* the codes curl.perform() may fail with on its own; E_ABORTED_BY_CALLBACK
\* is raised only after progress_function returned 1
TransferErrorCodes ==
    { E_TOO_MANY_REDIRECTS, E_OPERATION_TIMEDOUT, E_COULDNT_RESOLVE_HOST,
      E_COULDNT_CONNECT, E_PEER_FAILED_VERIFICATION, E_SSL_CONNECT_ERROR,
      E_RECV_ERROR, E_GOT_NOTHING, E_WRITE_ERROR }

Exception(t, c) == [type |-> t, code |-> c]

NoError == Exception("none", 0)

\* coerce_error with the receive-error branch lost
coerce_error_no_recv(code) ==
    IF code = E_ABORTED_BY_CALLBACK THEN Exception("CancelledRequestError", 0)
    ELSE IF code = E_TOO_MANY_REDIRECTS THEN Exception("MaxRedirectsError", 0)
    ELSE IF code = E_OPERATION_TIMEDOUT THEN Exception("PycurlTimeoutError", code)
    ELSE IF code = E_COULDNT_RESOLVE_HOST
        THEN Exception("PycurlHostResolutionError", code)
    ELSE IF code = E_COULDNT_CONNECT
        THEN Exception("PycurlConnectionRefusedError", code)
    ELSE IF code = E_PEER_FAILED_VERIFICATION \/ code = E_SSL_CONNECT_ERROR
        THEN Exception("PycurlSSLError", code)
    ELSE Exception("PycurlError", code)

coerce_error(code) ==
    IF code = E_ABORTED_BY_CALLBACK THEN Exception("CancelledRequestError", 0)
    ELSE IF code = E_TOO_MANY_REDIRECTS THEN Exception("MaxRedirectsError", 0)
    ELSE IF code = E_OPERATION_TIMEDOUT THEN Exception("PycurlTimeoutError", code)
    ELSE IF code = E_COULDNT_RESOLVE_HOST
        THEN Exception("PycurlHostResolutionError", code)
    ELSE IF code = E_COULDNT_CONNECT
        THEN Exception("PycurlConnectionRefusedError", code)
    ELSE IF code = E_PEER_FAILED_VERIFICATION \/ code = E_SSL_CONNECT_ERROR
        THEN Exception("PycurlSSLError", code)
    ELSE IF code = E_RECV_ERROR THEN Exception("PycurlReceiveError", code)
    ELSE Exception("PycurlError", code)

-----------------------------------------------------------------------------
(* The header parser: setup_curl_handle's closure header_function.  Its     *)
(* state is the nonlocals current_url and expecting_location_with_status    *)
(* and the two sinks, response_headers and stack.                           *)

ParserState(u, e, st, h) ==
    [current_url |-> u, expecting |-> e, stack |-> st, headers |-> h]

\* response_headers[name] = value on the case-insensitive mapping
SetHeader(h, n, v) == { p \in h : p[1] # Lower(n) } \cup { <<Lower(n), v>> }

\* header_function appending an entry for every Location header, armed or not
header_function_unarmed(ps, line) ==
    IF line.kind = "status"
    THEN ParserState(ps.current_url,
                     IF line.status \in REDIRECT_STATUSES
                     THEN line.status ELSE ps.expecting,
                     ps.stack, {})
    ELSE IF line.kind = "blank" THEN ps
    ELSE IF Lower(line.name) = "location"
    THEN ParserState(urljoin(ps.current_url, line.value), 0,
                     Append(ps.stack,
                            Redirection(ps.current_url, "location-header",
                                        ps.expecting)),
                     SetHeader(ps.headers, line.name, line.value))
    ELSE ParserState(ps.current_url, ps.expecting, ps.stack,
                     SetHeader(ps.headers, line.name, line.value))

\* header_function keeping the mapping across status lines
header_function_no_clear(ps, line) ==
    IF line.kind = "status"
    THEN ParserState(ps.current_url,
                     IF line.status \in REDIRECT_STATUSES
                     THEN line.status ELSE ps.expecting,
                     ps.stack, ps.headers)
    ELSE IF line.kind = "blank" THEN ps
    ELSE IF ps.expecting # 0 /\ Lower(line.name) = "location"
    THEN ParserState(urljoin(ps.current_url, line.value), 0,
                     Append(ps.stack,
                            Redirection(ps.current_url, "location-header",
                                        ps.expecting)),
                     SetHeader(ps.headers, line.name, line.value))
    ELSE ParserState(ps.current_url, ps.expecting, ps.stack,
                     SetHeader(ps.headers, line.name, line.value))

\* pycurl.py:160-198
header_function(ps, line) ==
    IF line.kind = "status"
    THEN ParserState(ps.current_url,
                     IF line.status \in REDIRECT_STATUSES
                     THEN line.status ELSE ps.expecting,
                     ps.stack, {})
    ELSE IF line.kind = "blank" THEN ps
    ELSE IF ps.expecting # 0 /\ Lower(line.name) = "location"
    THEN ParserState(urljoin(ps.current_url, line.value), 0,
                     Append(ps.stack,
                            Redirection(ps.current_url, "location-header",
                                        ps.expecting)),
                     SetHeader(ps.headers, line.name, line.value))
    ELSE ParserState(ps.current_url, ps.expecting, ps.stack,
                     SetHeader(ps.headers, line.name, line.value))

\* progress_function: 1 aborts the transfer, 0 lets it go on
progress_function(ev) == IF ev = "set" THEN 1 ELSE 0

-----------------------------------------------------------------------------
(* The timeout options: setup_curl_handle, pycurl.py:121-146.  Durations    *)
(* are whole seconds; Unset stands for None and for an option never set.    *)

Unset == -1

Seconds == {1, 2, 5}

\* the timeout argument: None, a number, or a urllib3 Timeout, whose
\* total, connect_timeout and read_timeout are numbers or None
TimeoutArg(kind, total, connect_timeout, read_timeout) ==
    [kind |-> kind, total |-> total, connect_timeout |-> connect_timeout,
     read_timeout |-> read_timeout]

NoTimeout == TimeoutArg("none", Unset, Unset, Unset)

TimeoutArgs ==
    { NoTimeout }
    \cup { TimeoutArg("scalar", t, Unset, Unset) : t \in Seconds }
    \cup { TimeoutArg("split", t, c, r) :
              t \in Seconds \cup {Unset}, c \in Seconds \cup {Unset},
              r \in Seconds \cup {Unset} }

\* the options of the handle: TIMEOUT_MS and CONNECTTIMEOUT_MS
CurlOptions(timeout_ms, connecttimeout_ms) ==
    [TIMEOUT_MS |-> timeout_ms, CONNECTTIMEOUT_MS |-> connecttimeout_ms]

NotSetUp == [TIMEOUT_MS |-> Unset - 1, CONNECTTIMEOUT_MS |-> Unset - 1]

\* int(seconds * 1000)
Milliseconds(t) == t * 1000

\* the timeout options with the larger of read and connect as the total
setup_timeout_max(t) ==
    LET total_timeout ==
            IF t.total # Unset THEN t.total
            ELSE IF t.read_timeout # Unset /\ t.connect_timeout # Unset
            THEN (IF t.read_timeout > t.connect_timeout
                  THEN t.read_timeout ELSE t.connect_timeout)
            ELSE IF t.read_timeout # Unset THEN t.read_timeout
            ELSE t.connect_timeout
    IN  IF t.kind = "none" THEN CurlOptions(Unset, Unset)
        ELSE IF t.kind = "scalar"
        THEN CurlOptions(Milliseconds(t.total), Unset)
        ELSE CurlOptions(IF total_timeout # Unset
                         THEN Milliseconds(total_timeout) ELSE Unset,
                         IF t.connect_timeout # Unset
                         THEN Milliseconds(t.connect_timeout) ELSE Unset)

\* pycurl.py:121-146
setup_timeout(t) ==
    LET from_read == IF t.read_timeout # Unset THEN t.read_timeout ELSE Unset
        total_timeout ==
            IF t.total # Unset THEN t.total
            ELSE IF t.connect_timeout # Unset
            THEN (IF from_read # Unset THEN from_read + t.connect_timeout
                  ELSE t.connect_timeout)
            ELSE from_read
    IN  IF t.kind = "none" THEN CurlOptions(Unset, Unset)
        ELSE IF t.kind = "scalar"
        THEN CurlOptions(Milliseconds(t.total), Unset)
        ELSE CurlOptions(IF total_timeout # Unset
                         THEN Milliseconds(total_timeout) ELSE Unset,
                         IF t.connect_timeout # Unset
                         THEN Milliseconds(t.connect_timeout) ELSE Unset)

InitTimeout ==
    /\ timeout \in TimeoutArgs
    /\ curl_options = NotSetUp

\* setup_curl_handle, as far as the timeout goes
SetupTimeout ==
    /\ curl_options = NotSetUp
    /\ curl_options' = setup_timeout(timeout)
    /\ UNCHANGED timeout

-----------------------------------------------------------------------------
(* request_with_pycurl *)

NoRequest == [url |-> NoUrl, follow_redirects |-> FALSE]

PycurlResult(u, s, h, st) ==
    [url |-> u, status |-> s, headers |-> h, stack |-> st]

NoResult == PycurlResult(NoUrl, 0, {}, <<>>)

\* the checks made before a handle exists, the URL check first
preflight_url_first(ev, u) ==
    IF ~is_url(u) THEN Exception("InvalidURLError", 0)
    ELSE IF ev = "set" THEN Exception("CancelledRequestError", 0)
    ELSE NoError

\* the checks made before a handle exists, without the URL check
preflight_no_url_check(ev, u) ==
    IF ev = "set" THEN Exception("CancelledRequestError", 0)
    ELSE NoError

\* pycurl.py:244-251: preemptive cancellation, then the URL check
preflight(ev, u) ==
    IF ev = "set" THEN Exception("CancelledRequestError", 0)
    ELSE IF ~is_url(u) THEN Exception("InvalidURLError", 0)
    ELSE NoError

\* pycurl.py:285-297: the terminal entry and the PycurlResult
make_result(u, eff, code, ps) ==
    PycurlResult(u, code, ps.headers,
                 Append(ps.stack, Redirection(eff, "", code)))

InitTransport ==
    /\ pc = "idle"
    /\ cancel_event \in {"none", "clear"}
    /\ request = NoRequest
    /\ curl_created = FALSE
    /\ performed = FALSE
    /\ current_url = NoUrl
    /\ expecting_location_with_status = 0
    /\ stack = <<>>
    /\ response_headers = {}
    /\ effective_url = NoUrl
    /\ http_code = 0
    /\ location_seen = FALSE
    /\ result = NoResult
    /\ error = NoError
    /\ error_code = 0
    /\ cancelled_at_start = FALSE
    /\ cancelled_in_flight = FALSE
    /\ status_lines = <<>>
    /\ location_after = <<>>

\* another thread signals the token: cancel_event.set()
Cancel ==
    /\ cancel_event = "clear"
    /\ pc \in {"idle", "performing"}
    /\ cancel_event' = "set"
    /\ cancelled_in_flight' = (pc = "performing")
    /\ UNCHANGED <<pc, request, curl_created, performed, current_url,
                   expecting_location_with_status, stack, response_headers,
                   effective_url, http_code, location_seen, result,
                   error, error_code, cancelled_at_start, status_lines,
                   location_after>>

\* the call, up to the point where curl.perform() is entered
Call(u, follow) ==
    /\ pc = "idle"
    /\ request' = [url |-> u, follow_redirects |-> follow]
    /\ cancelled_at_start' = (cancel_event = "set")
    /\ IF preflight(cancel_event, u) # NoError
       THEN /\ pc' = "raised"
            /\ error' = preflight(cancel_event, u)
            /\ UNCHANGED <<curl_created, performed, current_url, effective_url>>
       ELSE /\ pc' = "performing"
            /\ curl_created' = TRUE
            /\ performed' = TRUE
            /\ current_url' = u
            /\ effective_url' = sanitize_url(u)
            /\ UNCHANGED error
    /\ UNCHANGED <<cancel_event, expecting_location_with_status, stack,
                   response_headers, http_code, location_seen, result,
                   error_code, cancelled_in_flight, status_lines,
                   location_after>>

\* libcurl hands one header line to header_function; libcurl itself notes
\* the status and, when it follows redirects, the first Location of a 3xx
HeaderLine(line) ==
    /\ pc = "performing"
    /\ line.kind = "status" => Len(status_lines) < MaxStatusLines
    /\ LET ps == header_function(
                     ParserState(current_url, expecting_location_with_status,
                                 stack, response_headers), line)
           isLocation == line.kind = "field" /\ Lower(line.name) = "location"
           follows == /\ isLocation
                      /\ request.follow_redirects
                      /\ http_code >= 300 /\ http_code < 400
                      /\ ~location_seen
       IN  /\ current_url' = ps.current_url
           /\ expecting_location_with_status' = ps.expecting
           /\ stack' = ps.stack
           /\ response_headers' = ps.headers
           /\ http_code' = IF line.kind = "status" THEN line.status ELSE http_code
           /\ location_seen' = IF line.kind = "status" THEN FALSE
                               ELSE (location_seen \/ isLocation)
           /\ effective_url' = IF follows
                               THEN urljoin(effective_url, line.value)
                               ELSE effective_url
           /\ status_lines' = IF line.kind = "status"
                              THEN Append(status_lines, line.status)
                              ELSE status_lines
           /\ location_after' =
                 IF line.kind = "status" THEN Append(location_after, FALSE)
                 ELSE IF isLocation /\ Len(location_after) > 0
                 THEN [location_after EXCEPT ![Len(location_after)] = TRUE]
                 ELSE location_after
    /\ UNCHANGED <<pc, cancel_event, request, curl_created, performed, result,
                   error, error_code, cancelled_at_start, cancelled_in_flight>>

\* curl.perform() raises pycurl.error(code): pycurl.py:280-283.  The handle
\* is closed and the locals of the call (sinks, parser state) are dropped.
Raise(code) ==
    /\ pc' = "raised"
    /\ error_code' = code
    /\ error' = coerce_error(code)
    /\ current_url' = NoUrl
    /\ expecting_location_with_status' = 0
    /\ stack' = <<>>
    /\ response_headers' = {}
    /\ effective_url' = NoUrl
    /\ http_code' = 0
    /\ location_seen' = FALSE
    /\ status_lines' = <<>>
    /\ location_after' = <<>>
    /\ UNCHANGED <<cancel_event, request, curl_created, performed, result,
                   cancelled_at_start, cancelled_in_flight>>

\* libcurl polls XFERINFOFUNCTION (installed only when a token was given)
Progress ==
    /\ pc = "performing"
    /\ cancel_event # "none"
    /\ IF progress_function(cancel_event) = 1
       THEN Raise(E_ABORTED_BY_CALLBACK)
       ELSE UNCHANGED tvars

\* the transfer fails on its own
PerformFail(code) ==
    /\ pc = "performing"
    /\ Raise(code)

\* the transfer completes, a response having been received:
\* pycurl.py:285-297
PerformOK ==
    /\ pc = "performing"
    /\ Len(status_lines) > 0
    /\ pc' = "returned"
    /\ LET r == make_result(request.url, effective_url, http_code,
                            ParserState(current_url,
                                        expecting_location_with_status,
                                        stack, response_headers))
       IN  /\ result' = r
           /\ stack' = r.stack
    /\ UNCHANGED <<cancel_event, request, curl_created, performed, current_url,
                   expecting_location_with_status, response_headers,
                   effective_url, http_code, location_seen, error,
                   error_code, cancelled_at_start, cancelled_in_flight,
                   status_lines, location_after>>

-----------------------------------------------------------------------------
(* Strings and dates of minet/crowdtangle/utils.py.  A string is a sequence *)
(* of one-character strings; a datetime.date is <<year, month, day>>.       *)

Digits == <<"0", "1", "2", "3", "4", "5", "6", "7", "8", "9">>

DigitChar(n) == Digits[n + 1]

DigitVal(c) == CHOOSE n \in 0..9 : Digits[n + 1] = c

\* int(s) on a string of decimal digits
RECURSIVE ParseInt(_)
ParseInt(s) ==
    IF Len(s) = 0 THEN 0
    ELSE 10 * ParseInt(SubSeq(s, 1, Len(s) - 1)) + DigitVal(s[Len(s)])

\* zero-padded decimal of width w, as str(year) and date.isoformat() print it
RECURSIVE Decimal(_, _)
Decimal(n, w) ==
    IF w = 0 THEN <<>>
    ELSE Decimal(n \div 10, w - 1) \o <<DigitChar(n % 10)>>

\* s.split(sep)
RECURSIVE Split(_, _)
Split(s, sep) ==
    IF \A i \in 1..Len(s) : s[i] # sep THEN <<s>>
    ELSE LET k == CHOOSE i \in 1..Len(s) :
                     s[i] = sep /\ \A j \in 1..(i - 1) : s[j] # sep
         IN  <<SubSeq(s, 1, k - 1)>> \o Split(SubSeq(s, k + 1, Len(s)), sep)

\* s.replace(a, b) for one-character a and b
Replace(s, a, b) == [i \in 1..Len(s) |-> IF s[i] = a THEN b ELSE s[i]]

Contains(s, c) == \E i \in 1..Len(s) : s[i] = c

IsLeap(y) == (y % 4 = 0 /\ y % 100 # 0) \/ y % 400 = 0

DaysInMonth(y, m) ==
    IF m = 2 THEN (IF IsLeap(y) THEN 29 ELSE 28)
    ELSE IF m \in {4, 6, 9, 11} THEN 30 ELSE 31

\* d + timedelta(days=1)
NextDay(d) ==
    IF d[3] < DaysInMonth(d[1], d[2]) THEN <<d[1], d[2], d[3] + 1>>
    ELSE IF d[2] < 12 THEN <<d[1], d[2] + 1, 1>>
    ELSE <<d[1] + 1, 1, 1>>

\* d - timedelta(days=1)
PrevDay(d) ==
    IF d[3] > 1 THEN <<d[1], d[2], d[3] - 1>>
    ELSE IF d[2] > 1 THEN <<d[1], d[2] - 1, DaysInMonth(d[1], d[2] - 1)>>
    ELSE <<d[1] - 1, 12, 31>>

\* date.isoformat()
isoformat(d) ==
    Decimal(d[1], 4) \o <<"-">> \o Decimal(d[2], 2) \o <<"-">>
        \o Decimal(d[3], 2)

\* date(*[int(i) for i in end.split('-')])
ParseDate(s) ==
    LET parts == Split(s, "-")
    IN  <<ParseInt(parts[1]), ParseInt(parts[2]), ParseInt(parts[3])>>

\* None, for a string-valued or url-valued slot
None == <<"None">>

-----------------------------------------------------------------------------
(* day_range, a generator: nothing of its body runs before the first next() *)

DayRange(started, start_date, current_date, end) ==
    [started |-> started, start_date |-> start_date,
     current_date |-> current_date, end |-> end]

\* day_range(end): the generator object, its body not yet entered
day_range(end) == DayRange(FALSE, <<0, 0, 0>>, <<0, 0, 0>>, end)

\* day_range counting back from today instead of from tomorrow
day_range_next_from_today(g, now) ==
    LET start_date == IF g.started THEN g.start_date ELSE ParseDate(g.end)
        current_date == IF g.started THEN g.current_date ELSE now
    IN  IF start_date # current_date
        THEN [gen |-> DayRange(TRUE, start_date, PrevDay(current_date), g.end),
              value |-> <<isoformat(PrevDay(current_date)),
                          isoformat(current_date)>>]
        ELSE [gen |-> DayRange(TRUE, start_date, current_date, g.end),
              value |-> <<None, None>>]

\* next(gen, (None, None)) on a day_range generator: utils.py:26-36
day_range_next(g, now) ==
    LET start_date == IF g.started THEN g.start_date ELSE ParseDate(g.end)
        current_date == IF g.started THEN g.current_date ELSE NextDay(now)
    IN  IF start_date # current_date
        THEN [gen |-> DayRange(TRUE, start_date, PrevDay(current_date), g.end),
              value |-> <<isoformat(PrevDay(current_date)),
                          isoformat(current_date)>>]
        ELSE [gen |-> DayRange(TRUE, start_date, current_date, g.end),
              value |-> <<None, None>>]

-----------------------------------------------------------------------------
(* years_iter, a generator.  at is "unstarted", "loop" (suspended at the    *)
(* yield of line 47), "last" (suspended at the yield of line 53) or "done". *)

YearsIter(at, start_date, end_date, current_year, target_year, current_start_date, current_end_date) ==
    [at |-> at, start_date |-> start_date, end_date |-> end_date,
     current_year |-> current_year, target_year |-> target_year,
     current_start_date |-> current_start_date,
     current_end_date |-> current_end_date]

JanFirst == <<"-", "0", "1", "-", "0", "1", "T", "0", "0", ":", "0", "0", ":",
              "0", "0">>

DecLast == <<"-", "1", "2", "-", "3", "1", "T", "2", "3", ":", "5", "9", ":",
             "5", "9">>

EndOfDay == <<"T", "2", "3", ":", "5", "9", ":", "5", "9">>

years_iter(start_date, end_date) ==
    YearsIter("unstarted", start_date, end_date, 0, 0, None, None)

\* years_iter ending every window at the end date it was given
years_iter_next_same_end(g) ==
    LET entered == g.at = "unstarted"
        year == IF entered THEN ParseInt(SubSeq(g.end_date, 1, 4))
                ELSE g.current_year - 1
        target == IF entered THEN ParseInt(SubSeq(g.start_date, 1, 4))
                  ELSE g.target_year
        cstart == IF entered THEN Decimal(year, 4) \o JanFirst
                  ELSE Decimal(year, 4)
                         \o SubSeq(g.current_start_date, 5,
                                   Len(g.current_start_date))
        cend == g.end_date
    IN  IF g.at \in {"last", "done"}
        THEN [gen |-> [g EXCEPT !.at = "done"], stop |-> TRUE,
              value |-> <<None, None>>]
        ELSE IF year > target
        THEN [gen |-> YearsIter("loop", g.start_date, g.end_date, year, target,
                                cstart, cend),
              stop |-> FALSE, value |-> <<cstart, cend>>]
        ELSE [gen |-> YearsIter("last", g.start_date, g.end_date, year, target,
                                cstart, cend),
              stop |-> FALSE, value |-> <<g.start_date, cend>>]

\* next(gen) on a years_iter generator: utils.py:39-53.  stop is StopIteration.
years_iter_next(g) ==
    LET entered == g.at = "unstarted"
        year == IF entered THEN ParseInt(SubSeq(g.end_date, 1, 4))
                ELSE g.current_year - 1
        target == IF entered THEN ParseInt(SubSeq(g.start_date, 1, 4))
                  ELSE g.target_year
        cstart == IF entered THEN Decimal(year, 4) \o JanFirst
                  ELSE Decimal(year, 4)
                         \o SubSeq(g.current_start_date, 5,
                                   Len(g.current_start_date))
        cend == IF entered THEN g.end_date ELSE Decimal(year, 4) \o DecLast
    IN  IF g.at \in {"last", "done"}
        THEN [gen |-> [g EXCEPT !.at = "done"], stop |-> TRUE,
              value |-> <<None, None>>]
        ELSE IF year > target
        THEN [gen |-> YearsIter("loop", g.start_date, g.end_date, year, target,
                                cstart, cend),
              stop |-> FALSE, value |-> <<cstart, cend>>]
        ELSE [gen |-> YearsIter("last", g.start_date, g.end_date, year, target,
                                cstart, cend),
              stop |-> FALSE, value |-> <<g.start_date, cend>>]

-----------------------------------------------------------------------------
(* Items, pages and urls of the paginated API *)

Item(id, date) == [id |-> id, date |-> date]

NoItem == Item(0, None)

\* url_forge(**kwargs): the query url, told apart by its date parameters
QueryUrl(start_date, end_date) ==
    [kind |-> "query", start_date |-> start_date, end_date |-> end_date,
     page |-> 0]

\* a nextPage link of the API
NextPageUrl(n) ==
    [kind |-> "next", start_date |-> None, end_date |-> None, page |-> n]

NoneUrl == [kind |-> "none", start_date |-> None, end_date |-> None, page |-> 0]

url_forge(kwargs) == QueryUrl(kwargs.start_date, kwargs.end_date)

-----------------------------------------------------------------------------
(* The partition strategies.  One record holds the fields of the three      *)
(* classes; kind is "noop", "day" or "limit".                               *)

Kwargs(start_date, end_date) == [start_date |-> start_date, end_date |-> end_date]

Strategy(kind, kwargs, started, range, years, last_item, seen, shifts, limit) ==
    [kind |-> kind, kwargs |-> kwargs, started |-> started, range |-> range,
     years |-> years, last_item |-> last_item, seen |-> seen,
     shifts |-> shifts, limit |-> limit]

NoStrategy ==
    Strategy("none", Kwargs(None, None), FALSE, day_range(None),
             years_iter(None, None), NoItem, 0, 0, 0)

\* PartitionStrategyNoop.__init__
PartitionStrategyNoop(kwargs) ==
    Strategy("noop", kwargs, FALSE, day_range(None), years_iter(None, None),
             NoItem, 0, 0, 0)

\* PartitionStrategyDay.__init__
PartitionStrategyDay(kwargs) ==
    Strategy("day", kwargs, FALSE, day_range(kwargs.start_date),
             years_iter(None, None), NoItem, 0, 0, 0)

\* PartitionStrategyLimit.rotate_year
rotate_year(ps) ==
    LET r == years_iter_next(ps.years)
    IN  IF r.stop
        THEN [strategy |-> [ps EXCEPT !.years = r.gen], value |-> FALSE]
        ELSE [strategy |-> [ps EXCEPT !.years = r.gen,
                                      !.kwargs = Kwargs(r.value[1], r.value[2])],
              value |-> TRUE]

\* PartitionStrategyLimit.__init__
PartitionStrategyLimit(kwargs, limit) ==
    rotate_year(Strategy("limit", kwargs, FALSE, day_range(None),
                         years_iter(kwargs.start_date, kwargs.end_date),
                         NoItem, 0, 0, limit)).strategy

\* a Noop strategy giving its query at every call
noop_call_every_time(ps) ==
    [strategy |-> [ps EXCEPT !.started = TRUE], value |-> url_forge(ps.kwargs)]

\* PartitionStrategyNoop.__call__
noop_call(ps) ==
    IF ~ps.started
    THEN [strategy |-> [ps EXCEPT !.started = TRUE],
          value |-> url_forge(ps.kwargs)]
    ELSE [strategy |-> ps, value |-> NoneUrl]

\* PartitionStrategyDay.__call__
day_call(ps, now) ==
    LET r == day_range_next(ps.range, now)
    IN  IF r.value[1] = None
        THEN [strategy |-> [ps EXCEPT !.range = r.gen], value |-> NoneUrl]
        ELSE [strategy |-> [ps EXCEPT !.range = r.gen,
                                      !.kwargs = Kwargs(r.value[1], r.value[2])],
              value |-> url_forge(Kwargs(r.value[1], r.value[2]))]

\* PartitionStrategyLimit.__call__; items_is_none is `items is None`
limit_call(ps, items_is_none) ==
    IF ~ps.started
    THEN [strategy |-> [ps EXCEPT !.started = TRUE],
          value |-> url_forge(ps.kwargs)]
    ELSE IF items_is_none
    THEN LET r == rotate_year(ps)
         IN  IF ~r.value THEN [strategy |-> r.strategy, value |-> NoneUrl]
             ELSE [strategy |-> r.strategy,
                   value |-> url_forge(r.strategy.kwargs)]
    ELSE LET kw == IF ps.last_item # NoItem
                   THEN Kwargs(ps.kwargs.start_date,
                               Replace(ps.last_item.date, " ", "T"))
                   ELSE ps.kwargs
         IN  [strategy |-> [ps EXCEPT !.kwargs = kw], value |-> url_forge(kw)]

\* partition_strategy(items)
strategy_call(ps, items_is_none, now) ==
    IF ps.kind = "day" THEN day_call(ps, now)
    ELSE IF ps.kind = "limit" THEN limit_call(ps, items_is_none)
    ELSE noop_call(ps)

\* should_go_next stopping only once the count exceeds the limit
limit_should_go_next_strict(ps, items) ==
    LET n == Len(items)
        last == IF n > 0 THEN items[n] ELSE ps.last_item
        seen == IF n > 0 THEN ps.seen + n ELSE ps.seen
    IN  IF seen > ps.limit
        THEN [strategy |-> [ps EXCEPT !.last_item = last, !.seen = 0,
                                      !.shifts = ps.shifts + 1],
              value |-> FALSE]
        ELSE [strategy |-> [ps EXCEPT !.last_item = last, !.seen = seen],
              value |-> TRUE]

\* should_go_next keeping the count when it answers False
limit_should_go_next_no_reset(ps, items) ==
    LET n == Len(items)
        last == IF n > 0 THEN items[n] ELSE ps.last_item
        seen == IF n > 0 THEN ps.seen + n ELSE ps.seen
    IN  IF seen >= ps.limit
        THEN [strategy |-> [ps EXCEPT !.last_item = last, !.seen = seen,
                                      !.shifts = ps.shifts + 1],
              value |-> FALSE]
        ELSE [strategy |-> [ps EXCEPT !.last_item = last, !.seen = seen],
              value |-> TRUE]

\* PartitionStrategyLimit.should_go_next
limit_should_go_next(ps, items) ==
    LET n == Len(items)
        last == IF n > 0 THEN items[n] ELSE ps.last_item
        seen == IF n > 0 THEN ps.seen + n ELSE ps.seen
    IN  IF seen >= ps.limit
        THEN [strategy |-> [ps EXCEPT !.last_item = last, !.seen = 0,
                                      !.shifts = ps.shifts + 1],
              value |-> FALSE]
        ELSE [strategy |-> [ps EXCEPT !.last_item = last, !.seen = seen],
              value |-> TRUE]

\* partition_strategy.should_go_next(items)
should_go_next(ps, items) ==
    IF ps.kind = "limit" THEN limit_should_go_next(ps, items)
    ELSE [strategy |-> ps, value |-> TRUE]

-----------------------------------------------------------------------------
(* A Day strategy on its own: built for a start date, then called *)

RECURSIVE DaysBefore(_, _)
DaysBefore(d, k) == IF k = 0 THEN d ELSE DaysBefore(PrevDay(d), k - 1)

\* the days on which the strategy is built
Todays == { <<2024, 1, 8>>, <<2024, 3, 1>>, <<2023, 1, 2>> }

\* the start dates given: up to MaxBack days ago, tomorrow, the day after
StartDates(t) ==
    { isoformat(DaysBefore(t, k)) : k \in 0..MaxBack }
    \cup { isoformat(NextDay(t)), isoformat(NextDay(NextDay(t))) }

\* infer_end_date() at noon of today
infer_end_date(t) ==
    isoformat(t) \o <<"T", "1", "2", ":", "0", "0", ":", "0", "0">>

IdleStrategy ==
    /\ today = <<2024, 1, 8>>
    /\ strategy = NoStrategy
    /\ queries = <<>>

InitDay ==
    /\ today \in Todays
    /\ \E s \in StartDates(today) :
          strategy = PartitionStrategyDay(Kwargs(s, infer_end_date(today)))
    /\ queries = <<>>

\* partition_strategy(None) or partition_strategy(items) on the Day strategy
DayCall ==
    /\ Len(queries) < MaxDayCalls
    /\ LET r == strategy_call(strategy, TRUE, today)
       IN  /\ strategy' = r.strategy
           /\ queries' = Append(queries, r.value)
    /\ UNCHANGED today

-----------------------------------------------------------------------------
(* The stepper: step(http, url, item_key) on one response of the API *)

\* a response as request() returns it.  err is the transport error, if any;
\* body is what result.data holds: "garbage" (not JSON), "object" (JSON with
\* neither entry below), "error" (JSON with 'message' and 'code'), "result"
\* (JSON with 'result') or "both"; has_items: the result has the item key;
\* pagination: "absent" (no such key), "last" (no nextPage) or "next"
Response(err, status, body, has_items, items, pagination, next_page) ==
    [err |-> err, status |-> status, body |-> body, message |-> "", code |-> 0,
     has_items |-> has_items, items |-> items, pagination |-> pagination,
     next_page |-> next_page]

\* a response whose body carries the error entries 'message' and 'code',
\* with or without a result holding the items
ErrorResponse(status, message, code, items) ==
    [err |-> "", status |-> status,
     body |-> IF Len(items) > 0 THEN "both" ELSE "error",
     message |-> message, code |-> code, has_items |-> Len(items) > 0,
     items |-> items, pagination |-> "last", next_page |-> NoneUrl]

NoResponse == Response("", 0, "garbage", FALSE, <<>>, "absent", NoneUrl)

\* what step does: raise an exception with its arguments, or return
\* (items, next_url)
StepResult(exc, args, items, next_url) ==
    [raise |-> exc, args |-> args, items |-> items, next_url |-> next_url]

NoStepResult == StepResult("not called", <<>>, <<>>, NoneUrl)

\* step returning the item array whenever the result has one, empty or not
step_returns_empty_page(r) ==
    IF r.err # "" THEN StepResult(r.err, <<>>, <<>>, NoneUrl)
    ELSE IF r.status = 401
    THEN StepResult("CrowdTangleInvalidTokenError", <<>>, <<>>, NoneUrl)
    ELSE IF r.status = 429
    THEN StepResult("CrowdTangleRateLimitExceeded", <<>>, <<>>, NoneUrl)
    ELSE IF r.status >= 400
    THEN (IF r.body = "garbage"
          THEN StepResult("JSONDecodeError", <<>>, <<>>, NoneUrl)
          ELSE IF r.body \notin {"error", "both"}
          THEN StepResult("KeyError", <<"message">>, <<>>, NoneUrl)
          ELSE StepResult("CrowdTangleInvalidRequestError",
                          <<r.message, r.code, r.status>>, <<>>, NoneUrl))
    ELSE IF r.body \notin {"result", "both"}
    THEN StepResult("CrowdTangleInvalidJSONError", <<>>, <<>>, NoneUrl)
    ELSE IF ~r.has_items
    THEN StepResult("CrowdTangleExhaustedPaginationError", <<>>, <<>>, NoneUrl)
    ELSE IF r.pagination = "absent"
    THEN StepResult("KeyError", <<"pagination">>, <<>>, NoneUrl)
    ELSE StepResult("", <<>>, r.items,
                    IF r.pagination = "next" THEN r.next_page ELSE NoneUrl)

\* utils.py:196-227
step(r) ==
    IF r.err # "" THEN StepResult(r.err, <<>>, <<>>, NoneUrl)
    ELSE IF r.status = 401
    THEN StepResult("CrowdTangleInvalidTokenError", <<>>, <<>>, NoneUrl)
    ELSE IF r.status = 429
    THEN StepResult("CrowdTangleRateLimitExceeded", <<>>, <<>>, NoneUrl)
    ELSE IF r.status >= 400
    THEN (IF r.body = "garbage"
          THEN StepResult("JSONDecodeError", <<>>, <<>>, NoneUrl)
          ELSE IF r.body \notin {"error", "both"}
          THEN StepResult("KeyError", <<"message">>, <<>>, NoneUrl)
          ELSE StepResult("CrowdTangleInvalidRequestError",
                          <<r.message, r.code, r.status>>, <<>>, NoneUrl))
    ELSE IF r.body \notin {"result", "both"}
    THEN StepResult("CrowdTangleInvalidJSONError", <<>>, <<>>, NoneUrl)
    ELSE IF ~r.has_items \/ Len(r.items) = 0
    THEN StepResult("CrowdTangleExhaustedPaginationError", <<>>, <<>>, NoneUrl)
    ELSE IF r.pagination = "absent"
    THEN StepResult("KeyError", <<"pagination">>, <<>>, NoneUrl)
    ELSE StepResult("", <<>>, r.items,
                    IF r.pagination = "next" THEN r.next_page ELSE NoneUrl)

\* the items of the API: an identifier and a "date time" string
ItemIds == {1, 2, 3}

DateOf(id) ==
    <<"2", "0", "2", "4", "-", "0", "1", "-", "0", DigitChar(id), " ",
      "1", "0", ":", "0", "0", ":", "0", "0">>

Items == { Item(i, DateOf(i)) : i \in ItemIds }

\* the item arrays of a page: one or two items
Pages == { <<a>> : a \in Items } \cup { <<a, b>> : a \in Items, b \in Items }

NextPages == { NextPageUrl(1), NextPageUrl(2) }

\* the responses the API gives to the harvest
Responses ==
    { Response("PycurlTimeoutError", 0, "garbage", FALSE, <<>>, "absent",
               NoneUrl) }
    \cup { ErrorResponse(st, "bad request", 40, <<>>) : st \in {401, 429, 400} }
    \cup { Response("", st, "garbage", FALSE, <<>>, "absent", NoneUrl) :
              st \in {500, 200} }
    \cup { Response("", 200, "result", FALSE, <<>>, "last", NoneUrl),
           Response("", 200, "result", TRUE, <<>>, "last", NoneUrl) }
    \cup { Response("", 200, "result", TRUE, p, "next", n) :
              p \in Pages, n \in NextPages }
    \cup { Response("", 200, "result", TRUE, p, "last", NoneUrl) : p \in Pages }
    \cup { Response("", 200, "result", TRUE, <<Item(1, DateOf(1))>>, "absent",
                     NoneUrl) }

-----------------------------------------------------------------------------
(* The stepper on its own: one step call on one response *)

StepStatuses == {200, 201, 400, 401, 403, 429, 500}

StepPages == { <<Item(1, DateOf(1))>>, <<Item(2, DateOf(2)), Item(1, DateOf(1))>> }

\* the bodies a response of status st may carry
StepBodies(st) ==
    { Response("", st, b, FALSE, <<>>, "absent", NoneUrl) :
         b \in {"garbage", "object"} }
    \cup { ErrorResponse(st, m, c, p) :
              m \in {"bad request", "unknown account"}, c \in {40, 41},
              p \in {<<>>} \cup StepPages }
    \cup { Response("", st, "result", h, <<>>, pg, NoneUrl) :
              h \in BOOLEAN, pg \in {"absent", "last"} }
    \cup { Response("", st, "result", TRUE, p, pg, NoneUrl) :
              p \in StepPages, pg \in {"absent", "last"} }
    \cup { Response("", st, "result", TRUE, p, "next", n) :
              p \in StepPages, n \in NextPages }

StepResponses ==
    { Response(e, 0, "garbage", FALSE, <<>>, "absent", NoneUrl) :
         e \in {"PycurlTimeoutError", "CancelledRequestError"} }
    \cup UNION { StepBodies(st) : st \in StepStatuses }

IdleStep ==
    /\ response = NoResponse
    /\ stepped = NoStepResult
    /\ step_url = NoneUrl

InitStep ==
    /\ response \in StepResponses
    /\ stepped = NoStepResult
    /\ step_url = NoneUrl

\* step(http, url, item_key), request() answering with response
StepCall ==
    /\ stepped = NoStepResult
    /\ stepped' = step(response)
    /\ UNCHANGED <<response, step_url>>

-----------------------------------------------------------------------------
(* create_iterator *)

\* minet.crowdtangle.constants.CROWDTANGLE_OUTPUT_FORMATS
CROWDTANGLE_OUTPUT_FORMATS == {"raw", "csv_dict_row", "csv_row"}

\* the arguments: partition_strategy is "none", "day" or "limit" (an int,
\* kept in strategy_limit); has_limit is `limit is not None`
Config(partition_strategy, strategy_limit, has_limit, limit, format, per_call, detailed, start_date, end_date) ==
    [partition_strategy |-> partition_strategy,
     strategy_limit |-> strategy_limit, has_limit |-> has_limit,
     limit |-> limit, format |-> format, per_call |-> per_call,
     detailed |-> detailed, start_date |-> start_date, end_date |-> end_date]

NoConfig == Config("none", 0, FALSE, 0, "raw", FALSE, FALSE, None, None)

Str_2024_01_07 == isoformat(<<2024, 1, 7>>)
Str_2024_01_08 == isoformat(<<2024, 1, 8>>)
Str_2023_06_01 == isoformat(<<2023, 6, 1>>)

\* strategy, its limit, start date and end date as the caller combines them
StrategyArgs ==
    { <<"none", 0, None, None>>,
      <<"day", 0, None, None>>, <<"day", 0, Str_2024_01_07, None>>,
      <<"limit", 1, None, None>>, <<"limit", 1, Str_2023_06_01, None>>,
      <<"limit", 2, Str_2023_06_01, Str_2024_01_08>> }

\* limit: None, 0, 1 or 3
LimitArgs == { <<FALSE, 0>>, <<TRUE, 0>>, <<TRUE, 1>>, <<TRUE, 3>> }

\* per_call and detailed
ModeArgs == { <<FALSE, FALSE>>, <<TRUE, FALSE>>, <<TRUE, TRUE>> }

Formats == CROWDTANGLE_OUTPUT_FORMATS \cup {"xml"}

\* the calls made: every strategy with every limit in the default format
\* and mode; without limit, every strategy with every format in the default
\* mode and with every mode in the default format; and every limit with every
\* mode in the default format
Configs ==
    { Config(s[1], s[2], l[1], l[2], "csv_dict_row", FALSE, FALSE, s[3], s[4]) :
         s \in StrategyArgs, l \in LimitArgs }
    \cup { Config(s[1], s[2], FALSE, 0, f, FALSE, FALSE, s[3], s[4]) :
              s \in StrategyArgs, f \in Formats }
    \cup { Config(s[1], s[2], FALSE, 0, "csv_dict_row", m[1], m[2], s[3], s[4]) :
              s \in StrategyArgs, m \in ModeArgs }
    \cup { Config("none", 0, l[1], l[2], "csv_dict_row", m[1], m[2], None, None) :
              l \in LimitArgs, m \in ModeArgs }

\* formatter(item, as_dict=True), formatter(item), or the item itself
Formatted(format, item) ==
    IF format = "csv_dict_row" THEN [as |-> "dict", item |-> item]
    ELSE IF format = "csv_row" THEN [as |-> "row", item |-> item]
    ELSE [as |-> "raw", item |-> item]

\* partition_strategy.get_detail()
Detail(day, date, shifts) == [day |-> day, date |-> date, shifts |-> shifts]

NoDetail == Detail(None, None, 0)

get_detail(ps) ==
    IF ps.kind = "day" THEN Detail(ps.kwargs.start_date, None, 0)
    ELSE IF ps.kind = "limit" THEN Detail(None, ps.kwargs.end_date, ps.shifts)
    ELSE NoDetail

\* one yield: an item, a batch, or a (detail, batch) pair
Yield(kind, detail, batch) == [kind |-> kind, detail |-> detail, batch |-> batch]

\* utils.py:314-320
emit(cfg, ps, acc) ==
    IF cfg.per_call
    THEN (IF cfg.detailed
          THEN <<Yield("detailed", get_detail(ps), acc)>>
          ELSE <<Yield("batch", NoDetail, acc)>>)
    ELSE [i \in 1..Len(acc) |-> Yield("item", NoDetail, <<acc[i]>>)]

Collected(acc, n, enough) == [acc |-> acc, N |-> n, enough |-> enough]

\* the item loop that never stops on the limit
RECURSIVE collect_no_limit(_, _, _, _)
collect_no_limit(cfg, items, seen_ids, n) ==
    IF Len(items) = 0 THEN Collected(<<>>, n, FALSE)
    ELSE IF items[1].id \in seen_ids
    THEN collect_no_limit(cfg, Tail(items), seen_ids, n)
    ELSE LET rest == collect_no_limit(cfg, Tail(items), seen_ids, n + 1)
         IN  Collected(<<Formatted(cfg.format, items[1])>> \o rest.acc,
                       rest.N, rest.enough)

\* the item loop without the test against last_items
RECURSIVE collect_no_dedup(_, _, _, _)
collect_no_dedup(cfg, items, seen_ids, n) ==
    IF Len(items) = 0 THEN Collected(<<>>, n, FALSE)
    ELSE IF cfg.has_limit /\ n + 1 >= cfg.limit
    THEN Collected(<<Formatted(cfg.format, items[1])>>, n + 1, TRUE)
    ELSE LET rest == collect_no_dedup(cfg, Tail(items), seen_ids, n + 1)
         IN  Collected(<<Formatted(cfg.format, items[1])>> \o rest.acc,
                       rest.N, rest.enough)

\* utils.py:296-312: the item loop of one page
RECURSIVE collect(_, _, _, _)
collect(cfg, items, seen_ids, n) ==
    IF Len(items) = 0 THEN Collected(<<>>, n, FALSE)
    ELSE IF items[1].id \in seen_ids
    THEN collect(cfg, Tail(items), seen_ids, n)
    ELSE IF cfg.has_limit /\ n + 1 >= cfg.limit
    THEN Collected(<<Formatted(cfg.format, items[1])>>, n + 1, TRUE)
    ELSE LET rest == collect(cfg, Tail(items), seen_ids, n + 1)
         IN  Collected(<<Formatted(cfg.format, items[1])>> \o rest.acc,
                       rest.N, rest.enough)

Ids(items) == { items[i].id : i \in 1..Len(items) }

\* the while test of utils.py:279, and the generator's end when it fails
loop_test(u, lu) == IF u # NoneUrl /\ u # lu THEN "loop" ELSE "done"

Handled(exc, ps, u, calls) ==
    [raise |-> exc, strategy |-> ps, url |-> u, calls |-> calls]

\* the except branch letting the exception through
handle_exhausted_reraise(ps, now) ==
    Handled("CrowdTangleExhaustedPaginationError", ps, NoneUrl, <<>>)

\* utils.py:284-286: ExhaustedPagination is caught, the strategy asked anew
handle_exhausted(ps, now) ==
    LET c == strategy_call(ps, TRUE, now)
    IN  Handled("", c.strategy, c.value, <<"call(None)">>)

\* pagination following every next page, the strategy never asked
paginate_ignoring_strategy(ps, items, next_url, now) ==
    IF next_url = NoneUrl
    THEN LET c == strategy_call(ps, TRUE, now)
         IN  Handled("", c.strategy, c.value, <<"call(None)">>)
    ELSE Handled("", ps, next_url, <<"should_go_next:True">>)

\* utils.py:328-336: the next url after a page that did not end the harvest
paginate(ps, items, next_url, now) ==
    IF next_url = NoneUrl
    THEN LET c == strategy_call(ps, TRUE, now)
         IN  Handled("", c.strategy, c.value, <<"call(None)">>)
    ELSE LET g == should_go_next(ps, items)
         IN  IF g.value
             THEN Handled("", g.strategy, next_url, <<"should_go_next:True">>)
             ELSE LET c == strategy_call(g.strategy, FALSE, now)
                  IN  Handled("", c.strategy, c.value,
                              <<"should_go_next:False", "call(items)">>)

IdleIter ==
    /\ config = NoConfig
    /\ ipc = "new"
    /\ N = 0
    /\ C = 0
    /\ url = NoneUrl
    /\ last_url = NoneUrl
    /\ last_items = {}
    /\ raised = ""
    /\ round = <<>>
    /\ last_page = <<>>
    /\ yielded = <<>>

InitIter ==
    /\ today = <<2024, 1, 8>>
    /\ strategy = NoStrategy
    /\ queries = <<>>
    /\ IdleIter

\* an exception wrapped into a generic one on its way out of the generator
Abort_wrapping(exc, calls) ==
    /\ ipc' = "raised"
    /\ raised' = "CrowdTangleError"
    /\ round' = calls
    /\ strategy' = NoStrategy
    /\ N' = 0
    /\ C' = 0
    /\ url' = NoneUrl
    /\ last_url' = NoneUrl
    /\ last_items' = {}
    /\ last_page' = <<>>
    /\ yielded' = <<>>

\* an exception leaves the generator: its locals are gone
Abort(exc, calls) ==
    /\ ipc' = "raised"
    /\ raised' = exc
    /\ round' = calls
    /\ strategy' = NoStrategy
    /\ N' = 0
    /\ C' = 0
    /\ url' = NoneUrl
    /\ last_url' = NoneUrl
    /\ last_items' = {}
    /\ last_page' = <<>>
    /\ yielded' = <<>>

\* the generator entered with the arguments checked after the first
\* strategy call instead of before the strategy is built
Create_validating_late(cfg) ==
    /\ ipc = "new"
    /\ config' = cfg
    /\ LET inferred == IF cfg.end_date = None THEN infer_end_date(today)
                       ELSE cfg.end_date
           end_date == IF ~Contains(inferred, "T") THEN inferred \o EndOfDay
                       ELSE inferred
           kwargs == Kwargs(cfg.start_date, end_date)
           ps == IF cfg.partition_strategy = "limit"
                 THEN PartitionStrategyLimit(kwargs, cfg.strategy_limit)
                 ELSE IF cfg.partition_strategy = "day"
                 THEN PartitionStrategyDay(kwargs)
                 ELSE PartitionStrategyNoop(kwargs)
           c == strategy_call(ps, TRUE, today)
       IN  IF cfg.format \notin CROWDTANGLE_OUTPUT_FORMATS
           THEN Abort("TypeError", <<"call(None)">>)
           ELSE IF cfg.partition_strategy # "none" /\ cfg.start_date = None
           THEN Abort("CrowdTangleMissingStartDateError", <<"call(None)">>)
           ELSE /\ strategy' = c.strategy
                /\ url' = c.value
                /\ round' = <<"call(None)">>
                /\ ipc' = loop_test(c.value, NoneUrl)
                /\ UNCHANGED <<N, C, last_url, last_items, raised, last_page,
                               yielded>>
    /\ UNCHANGED <<today, queries>>

\* utils.py:241-279: the generator is entered, up to the first while test
Create(cfg) ==
    /\ ipc = "new"
    /\ config' = cfg
    /\ LET inferred == IF cfg.end_date = None THEN infer_end_date(today)
                       ELSE cfg.end_date
           end_date == IF ~Contains(inferred, "T") THEN inferred \o EndOfDay
                       ELSE inferred
           kwargs == Kwargs(cfg.start_date, end_date)
           ps == IF cfg.partition_strategy = "limit"
                 THEN PartitionStrategyLimit(kwargs, cfg.strategy_limit)
                 ELSE IF cfg.partition_strategy = "day"
                 THEN PartitionStrategyDay(kwargs)
                 ELSE PartitionStrategyNoop(kwargs)
           c == strategy_call(ps, TRUE, today)
       IN  IF cfg.format \notin CROWDTANGLE_OUTPUT_FORMATS
           THEN Abort("TypeError", <<>>)
           ELSE IF cfg.partition_strategy # "none" /\ cfg.start_date = None
           THEN Abort("CrowdTangleMissingStartDateError", <<>>)
           ELSE /\ strategy' = c.strategy
                /\ url' = c.value
                /\ round' = <<"call(None)">>
                /\ ipc' = loop_test(c.value, NoneUrl)
                /\ UNCHANGED <<N, C, last_url, last_items, raised, last_page,
                               yielded>>
    /\ UNCHANGED <<today, queries>>

\* the round when the stepper raised ExhaustedPagination
RoundExhausted ==
    \E h \in {handle_exhausted(strategy, today)} :
        IF h.raise # ""
        THEN Abort(h.raise, <<"step:exhausted">>)
        ELSE /\ C' = C + 1
             /\ strategy' = h.strategy
             /\ url' = h.url
             /\ round' = <<"step:exhausted">> \o h.calls
             /\ yielded' = <<>>
             /\ ipc' = loop_test(h.url, last_url)
             /\ UNCHANGED <<N, last_url, last_items, raised, last_page>>

\* the round of a page, the identifiers kept being those of the items
\* collected instead of those of the whole page
RoundPage_window_of_collected(items, next_url) ==
    \E col \in {collect(config, items, last_items, N)} :
        /\ C' = C + 1
        /\ last_url' = url
        /\ N' = col.N
        /\ last_page' = items
        /\ yielded' = emit(config, strategy, col.acc)
        /\ UNCHANGED raised
        /\ IF col.enough
           THEN /\ ipc' = "done"
                /\ round' = <<"step:page">>
                /\ UNCHANGED <<strategy, url, last_items>>
           ELSE \E pg \in {paginate(strategy, items, next_url, today)} :
                   /\ last_items' = { col.acc[i].item.id : i \in 1..Len(col.acc) }
                   /\ strategy' = pg.strategy
                   /\ url' = pg.url
                   /\ round' = <<"step:page">> \o pg.calls
                   /\ ipc' = loop_test(pg.url, url)

\* the round when the stepper returned (items, next_url)
RoundPage(items, next_url) ==
    \E col \in {collect(config, items, last_items, N)} :
        /\ C' = C + 1
        /\ last_url' = url
        /\ N' = col.N
        /\ last_page' = items
        /\ yielded' = emit(config, strategy, col.acc)
        /\ UNCHANGED raised
        /\ IF col.enough
           THEN /\ ipc' = "done"
                /\ round' = <<"step:page">>
                /\ UNCHANGED <<strategy, url, last_items>>
           ELSE \E pg \in {paginate(strategy, items, next_url, today)} :
                   /\ last_items' = Ids(items)
                   /\ strategy' = pg.strategy
                   /\ url' = pg.url
                   /\ round' = <<"step:page">> \o pg.calls
                   /\ ipc' = loop_test(pg.url, url)

\* utils.py:279-336: one round of the loop on the response r of the API,
\* up to the next while test; the stepper call is kept in step_url, response
\* and stepped
Turn(r) ==
    /\ ipc = "loop"
    /\ response' = r
    /\ stepped' = step(r)
    /\ step_url' = url
    /\ \E res \in {step(r)} :
          IF res.raise = "CrowdTangleExhaustedPaginationError"
          THEN RoundExhausted
          ELSE IF res.raise # ""
          THEN Abort(res.raise, <<"step:error">>)
          ELSE RoundPage(res.items, res.next_url)
    /\ UNCHANGED <<config, today, queries>>

\* a round of a harvest of at most MaxCalls stepper calls
Round(r) ==
    /\ C < MaxCalls
    /\ Turn(r)

-----------------------------------------------------------------------------
(* A harvest followed over all its rounds *)

\* the API's data: items, the newest first, served page_size at a time
Dataset(items, page_size) == [items |-> items, page_size |-> page_size]

NoDataset == Dataset(<<>>, 0)

\* the iterator at a while test that passed: what the round to come depends
\* on, the counters N and C left out
Position(u, lu, li, ps) ==
    [url |-> u, last_url |-> lu, last_items |-> li, strategy |-> ps]

\* one round: the iterator before the stepper call, the page the stepper
\* returned (empty when it raised) and the items yielded, unformatted
TrailEntry(before, page, out) == [before |-> before, page |-> page, out |-> out]

\* the round added to the trail of the harvest
Trailed ==
    trail' = Append(trail,
                    TrailEntry(Position(url, last_url, last_items, strategy),
                               stepped'.items, yielded'))

\* the harvests followed: every strategy, without item limit and with
\* a limit of 2
HarvestConfigs ==
    { Config(s[1], s[2], l[1], l[2], "csv_dict_row", FALSE, FALSE, s[3], s[4]) :
         s \in { <<"none", 0, None, None>>, <<"day", 0, Str_2024_01_07, None>>,
                 <<"limit", 2, Str_2023_06_01, Str_2024_01_08>> },
         l \in { <<FALSE, 0>>, <<TRUE, 2>> } }

HarvestPages ==
    { <<Item(1, DateOf(1))>>, <<Item(2, DateOf(2))>>,
      <<Item(2, DateOf(2)), Item(1, DateOf(1))>> }

\* the responses: an empty item array, a last page, a page with a nextPage
HarvestResponses ==
    { Response("", 200, "result", TRUE, <<>>, "last", NoneUrl) }
    \cup { Response("", 200, "result", TRUE, p, "last", NoneUrl) :
              p \in HarvestPages }
    \cup { Response("", 200, "result", TRUE, p, "next", NextPageUrl(1)) :
              p \in HarvestPages }

\* one round of the harvest, kept in the trail
Follow(r) ==
    /\ Round(r)
    /\ Trailed
    /\ UNCHANGED dataset

-----------------------------------------------------------------------------
(* A harvest against an API that serves a fixed dataset: the items dated    *)
(* from the start date to the end date of the query, both included, the     *)
(* newest first, page_size items a page, with a nextPage link while items   *)
(* remain.                                                                  *)

IsDigit(c) == \E n \in 0..9 : Digits[n + 1] = c

\* a <= b on date strings, compared character by character; the separators
\* ("-", ":", " ", "T") count as equal, a prefix is less than the whole
RECURSIVE StrLeq(_, _)
StrLeq(a, b) ==
    IF Len(a) = 0 THEN TRUE
    ELSE IF Len(b) = 0 THEN FALSE
    ELSE IF IsDigit(a[1]) /\ IsDigit(b[1]) /\ a[1] # b[1]
    THEN DigitVal(a[1]) < DigitVal(b[1])
    ELSE StrLeq(Tail(a), Tail(b))

\* the items dated within [start_date, end_date], in the order of the dataset
RECURSIVE Within(_, _, _)
Within(items, start_date, end_date) ==
    IF Len(items) = 0 THEN <<>>
    ELSE LET rest == Within(Tail(items), start_date, end_date)
         IN  IF /\ start_date = None \/ StrLeq(start_date, items[1].date)
                /\ StrLeq(items[1].date, end_date)
             THEN <<items[1]>> \o rest
             ELSE rest

\* the nextPage link of the API: page n of the query
PageUrl(start_date, end_date, n) ==
    [kind |-> "next", start_date |-> start_date, end_date |-> end_date,
     page |-> n]

\* the response of the API to the url
Serve(ds, u) ==
    LET found == Within(ds.items, u.start_date, u.end_date)
        from == u.page * ds.page_size
        upto == IF from + ds.page_size < Len(found)
                THEN from + ds.page_size ELSE Len(found)
        more == upto < Len(found)
    IN  Response("", 200, "result", TRUE, SubSeq(found, from + 1, upto),
                 IF more THEN "next" ELSE "last",
                 IF more THEN PageUrl(u.start_date, u.end_date, u.page + 1)
                 ELSE NoneUrl)

\* the datasets: none, three items of distinct timestamps, three items of
\* which the two newest, or the two oldest, share their timestamp; one or
\* two items a page
Datasets ==
    { Dataset(items, n) :
         items \in { <<>>,
                     <<Item(3, DateOf(7)), Item(2, DateOf(2)), Item(1, DateOf(1))>>,
                     <<Item(3, DateOf(7)), Item(2, DateOf(7)), Item(1, DateOf(1))>>,
                     <<Item(3, DateOf(7)), Item(2, DateOf(2)), Item(1, DateOf(2))>> },
         n \in {1, 2} }

\* the harvests: every strategy, no item limit, default format and mode
DatasetConfigs ==
    { Config(s[1], s[2], FALSE, 0, "csv_dict_row", FALSE, FALSE, s[3], None) :
         s \in { <<"none", 0, None>>, <<"day", 0, Str_2024_01_07>>,
                 <<"limit", 1, Str_2023_06_01>>, <<"limit", 2, Str_2023_06_01>>,
                 <<"limit", 3, Str_2023_06_01>> } }

InitDataset ==
    /\ dataset \in Datasets
    /\ trail = <<>>

\* one round of the harvest, the API answering the url from the dataset
Harvest ==
    /\ C < MaxTurns
    /\ Turn(Serve(dataset, url))
    /\ Trailed
    /\ UNCHANGED dataset

-----------------------------------------------------------------------------
(* A harvest against an API whose nextPage links are arbitrary urls: they   *)
(* may repeat, and may be the very url a strategy forges next.              *)

\* the harvests: every strategy, no item limit, default format and mode
FuseConfigs ==
    { Config(s[1], s[2], FALSE, 0, "csv_dict_row", FALSE, FALSE, s[3], s[4]) :
         s \in { a \in StrategyArgs : a[1] = "none" \/ a[3] # None } }

\* nextPage links: two of the API's own, the query of 2024-01-07 of the Day
\* strategy and the 2023 window of the Limit strategy
FuseNextPages ==
    NextPages
    \cup { QueryUrl(Str_2024_01_07, Str_2024_01_08),
           QueryUrl(Str_2023_06_01, <<"2", "0", "2", "3">> \o DecLast) }

FusePages == { <<Item(1, DateOf(1))>>, <<Item(2, DateOf(2)), Item(1, DateOf(1))>> }

\* the responses: an empty item array, a last page, a page with a nextPage
FuseResponses ==
    { Response("", 200, "result", TRUE, <<>>, "last", NoneUrl) }
    \cup { Response("", 200, "result", TRUE, p, "last", NoneUrl) :
              p \in FusePages }
    \cup { Response("", 200, "result", TRUE, p, "next", n) :
              p \in FusePages, n \in FuseNextPages }

-----------------------------------------------------------------------------
(* A Limit strategy on its own: built for a date range and a limit, then    *)
(* called                                                                   *)

Str_2022_03_05 == isoformat(<<2022, 3, 5>>)

\* the date ranges: start date as the caller gave it, end date as
\* create_iterator completed it (utils.py:247-252)
LimitKwargs ==
    { Kwargs(Str_2022_03_05, Str_2024_01_08 \o EndOfDay),
      Kwargs(Str_2023_06_01, Str_2024_01_08 \o EndOfDay),
      Kwargs(Str_2023_06_01, infer_end_date(<<2023, 9, 9>>)),
      Kwargs(Str_2024_01_07, infer_end_date(<<2024, 1, 8>>)) }

LimitLimits == {1, 2, 3}

LimitPages ==
    { <<>>, <<Item(1, DateOf(1))>>, <<Item(3, DateOf(3)), Item(2, DateOf(2))>> }

\* one call on the strategy: the method, its argument ("None", "empty" for
\* an empty list, "items"), what it returned, and the count and the
\* rotation counter of get_detail after it
LimitEntry(op, arg, u, value, seen, shifts) ==
    [op |-> op, arg |-> arg, url |-> u, value |-> value, seen |-> seen,
     shifts |-> shifts]

InitLimit ==
    /\ today = <<2024, 1, 8>>
    /\ \E kw \in LimitKwargs, l \in LimitLimits :
          strategy = PartitionStrategyLimit(kw, l)
    /\ queries = <<>>
    /\ limit_calls = <<>>

\* partition_strategy(None) or partition_strategy(items)
LimitCall(arg) ==
    /\ Len(limit_calls) < MaxLimitCalls
    /\ \E r \in {strategy_call(strategy, arg = "None", today)} :
          /\ strategy' = r.strategy
          /\ limit_calls' =
                Append(limit_calls,
                       LimitEntry("call", arg, r.value, TRUE, r.strategy.seen,
                                  get_detail(r.strategy).shifts))
    /\ UNCHANGED <<today, queries>>

\* partition_strategy.should_go_next(items)
LimitShouldGoNext(items) ==
    /\ Len(limit_calls) < MaxLimitCalls
    /\ \E r \in {should_go_next(strategy, items)} :
          /\ strategy' = r.strategy
          /\ limit_calls' =
                Append(limit_calls,
                       LimitEntry("should_go_next",
                                  IF Len(items) = 0 THEN "empty" ELSE "items",
                                  NoneUrl, r.value, r.strategy.seen,
                                  get_detail(r.strategy).shifts))
    /\ UNCHANGED <<today, queries>>

-----------------------------------------------------------------------------
(* A Noop strategy on its own: built for a query, then called *)

\* the query parameters the strategy is built with
NoopKwargs ==
    { Kwargs(None, infer_end_date(<<2024, 1, 8>>)),
      Kwargs(Str_2023_06_01, Str_2024_01_08 \o EndOfDay) }

\* one call on the strategy: the method, its argument ("None", "empty" for
\* an empty list, "items"), and what it returned
NoopEntry(op, arg, u, value) == [op |-> op, arg |-> arg, url |-> u, value |-> value]

InitNoop ==
    /\ today = <<2024, 1, 8>>
    /\ \E kw \in NoopKwargs : strategy = PartitionStrategyNoop(kw)
    /\ queries = <<>>
    /\ noop_calls = <<>>

\* partition_strategy(None) or partition_strategy(items)
NoopCall(arg) ==
    /\ Len(noop_calls) < MaxNoopCalls
    /\ \E r \in {strategy_call(strategy, arg = "None", today)} :
          /\ strategy' = r.strategy
          /\ noop_calls' = Append(noop_calls, NoopEntry("call", arg, r.value, TRUE))
    /\ UNCHANGED <<today, queries>>

\* partition_strategy.should_go_next(items)
NoopShouldGoNext(items) ==
    /\ Len(noop_calls) < MaxNoopCalls
    /\ \E r \in {should_go_next(strategy, items)} :
          /\ strategy' = r.strategy
          /\ noop_calls' =
                Append(noop_calls,
                       NoopEntry("should_go_next",
                                 IF Len(items) = 0 THEN "empty" ELSE "items",
                                 NoneUrl, r.value))
    /\ UNCHANGED <<today, queries>>

IdleTransport == InitTransport /\ cancel_event = "none"

\* no harvest followed
IdleHarvest ==
    /\ dataset = NoDataset
    /\ trail = <<>>

\* the parts with a specification of their own, not in use
IdleParts ==
    /\ fields_after = <<>>
    /\ timeout = NoTimeout
    /\ curl_options = NotSetUp
    /\ noop_calls = <<>>
    /\ limit_calls = <<>>

\* libcurl hands one header line to header_function, the fields of the
\* response in progress being kept
ReceiveLine(line) ==
    /\ HeaderLine(line)
    /\ line.kind = "field" => Len(fields_after) < MaxFields
    /\ fields_after' = IF line.kind = "status" THEN <<>>
                       ELSE IF line.kind = "field"
                       THEN Append(fields_after, line)
                       ELSE fields_after

InitSpecHeaders ==
    IdleTransport /\ IdleHarvest /\ IdleStrategy /\ IdleIter /\ IdleStep /\ IdleParts

NextSpecHeaders ==
    \/ \E u \in RequestUrls, follow \in BOOLEAN :
          Call(u, follow) /\ UNCHANGED <<hvars, svars, ivars, pvars, ovars>>
    \/ \E line \in HeaderLines :
          /\ ReceiveLine(line)
          /\ UNCHANGED <<hvars, svars, ivars, pvars, timeout, curl_options, noop_calls,
                         limit_calls>>
    \/ PerformOK /\ UNCHANGED <<hvars, svars, ivars, pvars, ovars>>

SpecHeaders == InitSpecHeaders /\ [][NextSpecHeaders]_vars

InitSpecNoop ==
    /\ IdleTransport /\ IdleHarvest /\ IdleIter /\ IdleStep
    /\ fields_after = <<>>
    /\ timeout = NoTimeout
    /\ curl_options = NotSetUp
    /\ limit_calls = <<>>
    /\ InitNoop

NextSpecNoop ==
    \/ \E arg \in {"None", "empty", "items"} :
          /\ NoopCall(arg)
          /\ UNCHANGED <<hvars, tvars, ivars, pvars, fields_after, timeout,
                         curl_options, limit_calls>>
    \/ \E items \in {<<>>} \cup StepPages :
          /\ NoopShouldGoNext(items)
          /\ UNCHANGED <<hvars, tvars, ivars, pvars, fields_after, timeout,
                         curl_options, limit_calls>>

SpecNoop == InitSpecNoop /\ [][NextSpecNoop]_vars

InitSpecTimeout ==
    /\ IdleTransport /\ IdleHarvest /\ IdleStrategy /\ IdleIter /\ IdleStep
    /\ fields_after = <<>>
    /\ noop_calls = <<>>
    /\ limit_calls = <<>>
    /\ InitTimeout

NextSpecTimeout ==
    SetupTimeout /\ UNCHANGED <<hvars, tvars, svars, ivars, pvars, fields_after,
                               noop_calls, limit_calls>>

SpecTimeout == InitSpecTimeout /\ [][NextSpecTimeout]_vars

InitSpecIter == IdleTransport /\ IdleHarvest /\ InitIter /\ IdleStep /\ IdleParts

NextSpecIter ==
    \/ \E cfg \in Configs : Create(cfg) /\ UNCHANGED <<hvars, tvars, pvars, ovars>>
    \/ \E r \in Responses : Round(r) /\ UNCHANGED <<hvars, tvars, ovars>>

SpecIter == InitSpecIter /\ [][NextSpecIter]_vars

InitSpecTransport ==
    InitTransport /\ IdleHarvest /\ IdleStrategy /\ IdleIter /\ IdleStep /\ IdleParts

NextSpecTransport ==
    \/ Cancel /\ UNCHANGED <<hvars, svars, ivars, pvars, ovars>>
    \/ \E u \in RequestUrls, follow \in BOOLEAN :
          Call(u, follow) /\ UNCHANGED <<hvars, svars, ivars, pvars, ovars>>
    \/ \E line \in HeaderLines : HeaderLine(line) /\ UNCHANGED <<hvars, svars, ivars, pvars, ovars>>
    \/ Progress /\ UNCHANGED <<hvars, svars, ivars, pvars, ovars>>
    \/ \E code \in TransferErrorCodes : PerformFail(code) /\ UNCHANGED <<hvars, svars, ivars, pvars, ovars>>
    \/ PerformOK /\ UNCHANGED <<hvars, svars, ivars, pvars, ovars>>

SpecTransport == InitSpecTransport /\ [][NextSpecTransport]_vars

InitSpecStep ==
    IdleTransport /\ IdleHarvest /\ IdleStrategy /\ IdleIter /\ InitStep /\ IdleParts

NextSpecStep == StepCall /\ UNCHANGED <<hvars, tvars, svars, ivars, ovars>>

SpecStep == InitSpecStep /\ [][NextSpecStep]_vars

InitSpecLimit ==
    /\ IdleTransport /\ IdleHarvest /\ IdleIter /\ IdleStep
    /\ fields_after = <<>>
    /\ timeout = NoTimeout
    /\ curl_options = NotSetUp
    /\ noop_calls = <<>>
    /\ InitLimit

NextSpecLimit ==
    \/ \E arg \in {"None", "items"} :
          /\ LimitCall(arg)
          /\ UNCHANGED <<hvars, tvars, ivars, pvars, fields_after, timeout,
                         curl_options, noop_calls>>
    \/ \E items \in LimitPages :
          /\ LimitShouldGoNext(items)
          /\ UNCHANGED <<hvars, tvars, ivars, pvars, fields_after, timeout,
                         curl_options, noop_calls>>

SpecLimit == InitSpecLimit /\ [][NextSpecLimit]_vars

InitSpecHarvest ==
    IdleTransport /\ IdleHarvest /\ InitIter /\ IdleStep /\ IdleParts

NextSpecHarvest ==
    \/ \E cfg \in HarvestConfigs :
          Create(cfg) /\ UNCHANGED <<hvars, tvars, pvars, ovars>>
    \/ \E r \in HarvestResponses : Follow(r) /\ UNCHANGED <<tvars, ovars>>

SpecHarvest == InitSpecHarvest /\ [][NextSpecHarvest]_vars

InitSpecDataset ==
    IdleTransport /\ InitDataset /\ InitIter /\ IdleStep /\ IdleParts

NextSpecDataset ==
    \/ \E cfg \in DatasetConfigs :
          Create(cfg) /\ UNCHANGED <<hvars, tvars, pvars, ovars>>
    \/ Harvest /\ UNCHANGED <<tvars, ovars>>

SpecDataset == InitSpecDataset /\ [][NextSpecDataset]_vars

InitSpecFuse == IdleTransport /\ IdleHarvest /\ InitIter /\ IdleStep /\ IdleParts

NextSpecFuse ==
    \/ \E cfg \in FuseConfigs : Create(cfg) /\ UNCHANGED <<hvars, tvars, pvars, ovars>>
    \/ \E r \in FuseResponses : Round(r) /\ UNCHANGED <<hvars, tvars, ovars>>

SpecFuse == InitSpecFuse /\ [][NextSpecFuse]_vars

InitSpecDay == IdleTransport /\ IdleHarvest /\ InitDay /\ IdleIter /\ IdleStep /\ IdleParts

NextSpecDay == DayCall /\ UNCHANGED <<hvars, tvars, ivars, pvars, ovars>>

SpecDay == InitSpecDay /\ [][NextSpecDay]_vars

-----------------------------------------------------------------------------
(* Properties of the transport, checked under SpecTransport *)

LastEntry(st) == st[Len(st)]

\* C1: on every successful call the last entry of the returned chain has the
\* URL of the Result's url field and the status of the Result's status field.
C1_LastEntryIsResult ==
    pc = "returned" =>
        /\ LastEntry(result.stack).url = result.url
        /\ LastEntry(result.stack).status = result.status

\* the positions of the status lines that carry a redirect status
RedirectPositions ==
    { i \in 1..Len(status_lines) : status_lines[i] \in REDIRECT_STATUSES }

AllFollowedByLocation ==
    \A i \in 1..Len(location_after) : location_after[i]

LocationEntries(st) ==
    { i \in 1..Len(st) : st[i].type = "location-header" }

\* C2 as stated: three status lines, each followed by a Location header, give
\* three "location-header" entries and then one terminal entry.
C2_ThreeStatusLinesThreeEntries ==
    (pc = "returned" /\ Len(status_lines) = 3 /\ AllFollowedByLocation) =>
        /\ Len(result.stack) = 4
        /\ LocationEntries(result.stack) = 1..3
        /\ result.stack[4].type = ""

\* C2 amended: three status lines, each followed by a Location header, give
\* one "location-header" entry per status line carrying a redirect status, in
\* traversal order and with that status, and then one terminal entry (two
\* entries and the terminal one for 301, 302, 200).
C2_OneEntryPerRedirectStatus ==
    (pc = "returned" /\ Len(status_lines) = 3 /\ AllFollowedByLocation) =>
        LET n == Cardinality(RedirectPositions)
            \* the k-th redirect position, in order
            pos(k) == CHOOSE i \in RedirectPositions :
                         Cardinality({ j \in RedirectPositions : j <= i }) = k
        IN  /\ Len(result.stack) = n + 1
            /\ LocationEntries(result.stack) = 1..n
            /\ \A k \in 1..n : result.stack[k].status = status_lines[pos(k)]
            /\ n > 0 => result.stack[1].url = request.url
            /\ result.stack[n + 1].type = ""
            /\ result.stack[n + 1].status = result.status

C2_Witness ==
    /\ pc = "returned"
    /\ status_lines = <<301, 302, 200>>
    /\ location_after = <<TRUE, TRUE, TRUE>>
    /\ Len(result.stack) = 3
    /\ result.stack[1].status = 301
    /\ result.stack[2].status = 302

\* C3: a call started with the token already set raises Cancelled and neither
\* creates a handle nor enters the transfer, whatever the URL.
C3_PreemptiveCancellation ==
    cancelled_at_start =>
        /\ pc = "raised"
        /\ error = Exception("CancelledRequestError", 0)
        /\ ~curl_created
        /\ ~performed
        /\ result = NoResult

C3_Witness ==
    /\ cancelled_at_start
    /\ pc = "raised"
    /\ ~is_url(request.url)
    /\ error.type = "CancelledRequestError"

\* C4: a call whose token was set while the transfer was running and whose
\* transfer failed raises Cancelled, whatever error the transfer failed with.
C4_CancellationHasPriority ==
    (pc = "raised" /\ cancelled_in_flight) =>
        error.type = "CancelledRequestError"

\* the classification of section 4.1, by error code
Classification(code) ==
    CASE code = 42 -> "CancelledRequestError"
      [] code = 47 -> "MaxRedirectsError"
      [] code = 28 -> "PycurlTimeoutError"
      [] code = 6 -> "PycurlHostResolutionError"
      [] code = 7 -> "PycurlConnectionRefusedError"
      [] code \in {60, 35} -> "PycurlSSLError"
      [] code = 56 -> "PycurlReceiveError"
      [] OTHER -> "PycurlError"

\* C10: a failed transfer raises exactly the variant its error code selects,
\* the generic variant carries the code, and a failed call returns no Result.
C10_ClassificationByCode ==
    /\ (pc = "raised" /\ error_code # 0) =>
          /\ error.type = Classification(error_code)
          /\ error.type = "PycurlError" => error.code = error_code
    /\ pc = "raised" => (result = NoResult /\ error # NoError)
    /\ pc = "returned" => error = NoError

C10_Witness ==
    /\ pc = "raised"
    /\ error_code = E_RECV_ERROR
    /\ error.type = "PycurlReceiveError"
    /\ result = NoResult

-----------------------------------------------------------------------------
(* Properties of the Day strategy, checked under SpecDay *)

DateLE(a, b) ==
    \/ a[1] < b[1]
    \/ a[1] = b[1] /\ a[2] < b[2]
    \/ a[1] = b[1] /\ a[2] = b[2] /\ a[3] <= b[3]

\* the start date the strategy was built with
DayStart == ParseDate(strategy.range.end)

\* C5 as stated: for a start date S <= today T, the i-th call returns the
\* query of day T-i, start and end date both that day, as long as that day
\* is not before S, and null after that.
C5_DaysFromYesterdaySameDayBounds ==
    DateLE(DayStart, today) =>
        \A i \in 1..Len(queries) :
            LET day == DaysBefore(today, i)
            IN  queries[i] = IF DateLE(DayStart, day)
                             THEN QueryUrl(isoformat(day), isoformat(day))
                             ELSE NoneUrl

\* C5 amended: for a start date S <= today T, the i-th call returns the query
\* of day T-(i-1), its start date that day and its end date the day after,
\* as long as that day is not before S, and null after that: T-S+1 queries,
\* from today back to S.
C5_DaysFromTodayNextDayBounds ==
    DateLE(DayStart, today) =>
        \A i \in 1..Len(queries) :
            LET day == DaysBefore(today, i - 1)
            IN  queries[i] = IF DateLE(DayStart, day)
                             THEN QueryUrl(isoformat(day),
                                           isoformat(NextDay(day)))
                             ELSE NoneUrl

C5_Witness ==
    /\ today = <<2024, 1, 8>>
    /\ DayStart = <<2024, 1, 5>>
    /\ Len(queries) = 5
    /\ queries[1].start_date = isoformat(<<2024, 1, 8>>)
    /\ queries[4] = QueryUrl(isoformat(<<2024, 1, 5>>), isoformat(<<2024, 1, 6>>))
    /\ queries[5] = NoneUrl

-----------------------------------------------------------------------------
(* Properties of the paginated iterator, checked under SpecIter *)

\* the items of the yields of one round, as the API gave them
RECURSIVE RawYield(_)
RawYield(ys) ==
    IF Len(ys) = 0 THEN <<>>
    ELSE [i \in 1..Len(ys[1].batch) |-> ys[1].batch[i].item]
            \o RawYield(Tail(ys))

\* the items of a page whose identifier is not among ids, in page order
RECURSIVE Fresh(_, _)
Fresh(items, ids) ==
    IF Len(items) = 0 THEN <<>>
    ELSE IF items[1].id \in ids THEN Fresh(Tail(items), ids)
    ELSE <<items[1]>> \o Fresh(Tail(items), ids)

\* how many items of a sequence carry the identifier
Count(id, items) == Cardinality({ i \in 1..Len(items) : items[i].id = id })

IsPrefix(a, b) == Len(a) <= Len(b) /\ a = SubSeq(b, 1, Len(a))

\* the round just made fetched a page of items
PageRound(r) == Len(r) > 0 /\ r[1] = "step:page"

\* the round just made asked should_go_next
AskedShouldGoNext(r) ==
    Len(r) >= 2 /\ r[2] \in {"should_go_next:True", "should_go_next:False"}

\* C6: on a Limit strategy of limit L >= 1, should_go_next returns false
\* exactly when the items seen since the last reset, the page just given
\* included, are L or more; the count is then reset, and the query of the
\* strategy call that follows ends at the date of the last item of that page,
\* its space replaced by "T".  Otherwise the count grows by the page.
C6_LimitStopsPaginationAtL ==
    [][(strategy.kind = "limit" /\ AskedShouldGoNext(round')) =>
          LET page == last_page'
              reached == strategy.seen + Len(page) >= strategy.limit
          IN  /\ strategy.limit >= 1
              /\ strategy.seen < strategy.limit
              /\ (round'[2] = "should_go_next:False") <=> reached
              /\ reached =>
                    /\ round' = <<"step:page", "should_go_next:False",
                                  "call(items)">>
                    /\ strategy'.seen = 0
                    /\ strategy'.shifts = strategy.shifts + 1
                    /\ url' = QueryUrl(strategy.kwargs.start_date,
                                       Replace(page[Len(page)].date, " ", "T"))
                    /\ url'.end_date[11] = "T"
              /\ ~reached =>
                    /\ round' = <<"step:page", "should_go_next:True">>
                    /\ strategy'.seen = strategy.seen + Len(page)
                    /\ url'.kind = "next"]_vars

C6_Witness ==
    /\ strategy.kind = "limit"
    /\ strategy.limit = 2
    /\ C = 2
    /\ round = <<"step:page", "should_go_next:False", "call(items)">>
    /\ Len(last_page) = 1
    /\ last_page[1].id = 2
    /\ strategy.seen = 0
    /\ strategy.shifts = 1
    /\ url.kind = "query"
    /\ url.end_date = <<"2", "0", "2", "4", "-", "0", "1", "-", "0", "2", "T",
                        "1", "0", ":", "0", "0", ":", "0", "0">>

\* C7 as stated: an identifier held by two pages fetched one after the other
\* is yielded exactly once from the first of them and not at all from the
\* second.
C7_SharedItemOnceFromFirstPage ==
    [][(PageRound(round) /\ PageRound(round')) =>
          \A id \in Ids(last_page) \cap Ids(last_page') :
              /\ Count(id, RawYield(yielded)) = 1
              /\ Count(id, RawYield(yielded')) = 0]_vars

\* C7 amended: from every page the iterator yields, in page order, exactly
\* the items whose identifier is not held by the page fetched before it (up
\* to the global limit), so no occurrence of an identifier shared with the
\* page before is yielded from the later page.
C7_YieldsItemsNotInPreviousPage ==
    [][PageRound(round') =>
          LET fresh == Fresh(last_page', Ids(last_page))
              out == RawYield(yielded')
          IN  /\ last_items = Ids(last_page)
              /\ IsPrefix(out, fresh)
              /\ \A id \in Ids(last_page) : Count(id, out) = 0
              /\ ~(config.has_limit /\ N' >= config.limit) => out = fresh]_vars

C7_Witness ==
    /\ PageRound(round)
    /\ C = 2
    /\ ~config.has_limit
    /\ config.per_call
    /\ config.partition_strategy = "day"
    /\ Len(last_page) = 2
    /\ last_page[1].id # last_page[2].id
    /\ RawYield(yielded) = <<last_page[2]>>

\* C8: ExhaustedPagination never leaves the iterator; the round in which the
\* stepper raised it yields nothing and makes exactly one strategy call, with
\* None, before the loop goes on or ends.
C8_ExhaustedPaginationIsCaught ==
    /\ raised # "CrowdTangleExhaustedPaginationError"
    /\ (Len(round) > 0 /\ round[1] = "step:exhausted") =>
          /\ round = <<"step:exhausted", "call(None)">>
          /\ yielded = <<>>
          /\ raised = ""
          /\ ipc \in {"loop", "done"}
          /\ ipc = "loop" <=> (url # NoneUrl /\ url # last_url)

C8_Witness ==
    /\ round = <<"step:exhausted", "call(None)">>
    /\ ipc = "loop"
    /\ C = 1
    /\ strategy.kind = "limit"
    /\ strategy.years.at = "last"
    /\ url = QueryUrl(Str_2023_06_01,
                      <<"2", "0", "2", "3">> \o DecLast)
    /\ yielded = <<>>

-----------------------------------------------------------------------------
(* Properties of the stepper, checked under SpecStep *)

\* the step call was made and request() gave it a response, not an error
Answered == stepped # NoStepResult /\ response.err = ""

C12_InvalidJSONThenExhausted ==
    (Answered /\ response.status < 400) =>
        /\ response.body \notin {"result", "both"} =>
              stepped.raise = "CrowdTangleInvalidJSONError"
        /\ response.body \in {"result", "both"} =>
              /\ stepped.raise # "CrowdTangleInvalidJSONError"
              /\ stepped.raise = "CrowdTangleExhaustedPaginationError"
                    <=> (~response.has_items \/ Len(response.items) = 0)
        /\ stepped.raise = "" =>
              /\ Len(response.items) > 0
              /\ stepped.items = response.items
        /\ stepped.raise # "" => stepped.items = <<>>

C12_Witness ==
    /\ Answered
    /\ response.status = 200
    /\ response.body = "result"
    /\ response.has_items
    /\ response.items = <<>>
    /\ stepped.raise = "CrowdTangleExhaustedPaginationError"

\* C13: a response of status < 400 with a result holding a non-empty item
\* array makes step return the items and the nextPage of the pagination
\* entry, or None when there is no nextPage or no pagination entry at all.
C13_NextPageOrNone ==
    (/\ Answered
     /\ response.status < 400
     /\ response.body \in {"result", "both"}
     /\ response.has_items
     /\ Len(response.items) > 0) =>
        /\ stepped.raise = ""
        /\ stepped.items = response.items
        /\ stepped.next_url = IF response.pagination = "next"
                              THEN response.next_page ELSE NoneUrl

-----------------------------------------------------------------------------
(* Properties of the header mapping, checked under SpecHeaders *)

\* the mapping a sequence of fields leaves: for every name, whatever its
\* case, the value of the last field of that name
HeadersOf(fields) ==
    { <<Lower(fields[i].name), fields[i].value>> :
         i \in { k \in 1..Len(fields) :
                    \A j \in (k + 1)..Len(fields) :
                        Lower(fields[j].name) # Lower(fields[k].name) } }

\* C14: during the call and in the Result, the header mapping holds exactly
\* the fields received since the last status line (for a name received more
\* than once, its last value): nothing of an earlier response survives.
C14_OnlyLastResponseHeaders ==
    /\ pc = "performing" => response_headers = HeadersOf(fields_after)
    /\ pc = "returned" => result.headers = HeadersOf(fields_after)

C14_Witness ==
    /\ pc = "returned"
    /\ status_lines = <<301, 200>>
    /\ Len(result.stack) = 2
    /\ result.stack[1].type = "location-header"
    /\ fields_after = <<FieldLine("Server", Url("", "", "x"))>>
    /\ result.headers = {<<"server", Url("", "", "x")>>}

-----------------------------------------------------------------------------
(* Properties of the timeout options, checked under SpecTimeout *)

\* C15: the total timeout set on the handle is the total of a Timeout when
\* it has one; without a total, the read timeout when only read is given,
\* the connect timeout when only connect is given and their sum when both
\* are; a number is used as the total.  It is set in milliseconds.
C15_SplitTimeoutsSum ==
    curl_options # NotSetUp =>
        LET t == timeout
            expected ==
                IF t.kind = "none" THEN Unset
                ELSE IF t.kind = "scalar" THEN t.total
                ELSE IF t.total # Unset THEN t.total
                ELSE IF t.read_timeout # Unset /\ t.connect_timeout # Unset
                THEN t.read_timeout + t.connect_timeout
                ELSE IF t.read_timeout # Unset THEN t.read_timeout
                ELSE IF t.connect_timeout # Unset THEN t.connect_timeout
                ELSE Unset
        IN  curl_options.TIMEOUT_MS =
               IF expected = Unset THEN Unset ELSE 1000 * expected

C15_Witness ==
    /\ timeout = TimeoutArg("split", Unset, 5, 2)
    /\ curl_options.TIMEOUT_MS = 7000
    /\ curl_options.CONNECTTIMEOUT_MS = 5000

-----------------------------------------------------------------------------
(* Further properties of the transport, checked under SpecTransport *)

\* C16: a call with a URL that is_url rejects, its token not set, raises
\* InvalidURLError without a handle being created, the transfer entered or
\* a header line received, and returns no Result.
C16_InvalidUrlBeforeAnyHandle ==
    (pc # "idle" /\ ~cancelled_at_start /\ ~is_url(request.url)) =>
        /\ pc = "raised"
        /\ error = Exception("InvalidURLError", 0)
        /\ ~curl_created
        /\ ~performed
        /\ status_lines = <<>>
        /\ stack = <<>>
        /\ result = NoResult

C16_Witness ==
    /\ pc = "raised"
    /\ cancel_event = "clear"
    /\ request.url = Url("", "a.io", "/")
    /\ error.type = "InvalidURLError"
    /\ ~curl_created

-----------------------------------------------------------------------------
(* Properties of the Noop strategy, checked under SpecNoop *)

\* C17: the first call of a Noop strategy returns the query it was built
\* for and every later call None, whatever the argument and whatever the
\* calls to should_go_next made in between, which all return True.
C17_NoopOneQueryThenNone ==
    /\ strategy.kwargs \in NoopKwargs
    /\ \A i \in 1..Len(noop_calls) :
          LET e == noop_calls[i]
              first == \A j \in 1..(i - 1) : noop_calls[j].op # "call"
          IN  IF e.op = "call"
              THEN e.url = IF first
                           THEN QueryUrl(strategy.kwargs.start_date,
                                         strategy.kwargs.end_date)
                           ELSE NoneUrl
              ELSE e.value = TRUE

C17_Witness ==
    /\ Len(noop_calls) = 4
    /\ noop_calls[1].op = "should_go_next"
    /\ noop_calls[2].op = "call" /\ noop_calls[2].arg = "items"
    /\ noop_calls[2].url.kind = "query"
    /\ noop_calls[3].op = "should_go_next" /\ noop_calls[3].value
    /\ noop_calls[4].op = "call" /\ noop_calls[4].arg = "None"
    /\ noop_calls[4].url = NoneUrl

-----------------------------------------------------------------------------
(* Errors and pagination of the iterator, checked under SpecIter *)

\* what the caller of the stepper must see for a response, for the errors
\* the stepper names; "" where it names none
ExpectedError(r) ==
    IF r.err # "" THEN r.err
    ELSE IF r.status = 401 THEN "CrowdTangleInvalidTokenError"
    ELSE IF r.status = 429 THEN "CrowdTangleRateLimitExceeded"
    ELSE IF r.status >= 400 /\ r.body \in {"error", "both"}
    THEN "CrowdTangleInvalidRequestError"
    ELSE IF r.status < 400 /\ r.body \notin {"result", "both"}
    THEN "CrowdTangleInvalidJSONError"
    ELSE ""

\* C18: an error of a stepper call other than ExhaustedPagination leaves the
\* iterator as it was raised, in the round of that call and with nothing
\* yielded in it, and a raised iterator takes no further step: no stepper
\* call, no item.
C18_StepperErrorAbortsUnmodified ==
    [][/\ ipc = "raised" => UNCHANGED vars
       /\ ipc = "loop" =>
             /\ (stepped'.raise
                   \notin {"", "CrowdTangleExhaustedPaginationError"}) =>
                   /\ ipc' = "raised"
                   /\ raised' = stepped'.raise
                   /\ round' = <<"step:error">>
                   /\ yielded' = <<>>
             /\ ExpectedError(response') # "" =>
                   /\ ipc' = "raised"
                   /\ raised' = ExpectedError(response')]_vars

C18_Witness ==
    /\ ipc = "raised"
    /\ round = <<"step:error">>
    /\ response.err = ""
    /\ response.status = 400
    /\ raised = "CrowdTangleInvalidRequestError"
    /\ stepped.args = <<response.message, response.code, 400>>
    /\ yielded = <<>>

\* C19: a harvest entered with an unsupported format, or with a partition
\* strategy and no start date, raises TypeError, respectively
\* MissingStartDate, with no strategy built or called, no stepper call and
\* no transport call made.
C19_InputErrorsBeforeAnyCall ==
    LET bad_format == config.format \notin CROWDTANGLE_OUTPUT_FORMATS
        no_start == config.partition_strategy # "none"
                       /\ config.start_date = None
    IN  (ipc # "new" /\ (bad_format \/ no_start)) =>
            /\ ipc = "raised"
            /\ raised = IF bad_format THEN "TypeError"
                        ELSE "CrowdTangleMissingStartDateError"
            /\ round = <<>>
            /\ strategy = NoStrategy
            /\ queries = <<>>
            /\ C = 0
            /\ stepped = NoStepResult
            /\ response = NoResponse
            /\ yielded = <<>>
            /\ IdleTransport

C19_Witness ==
    /\ ipc = "raised"
    /\ raised = "CrowdTangleMissingStartDateError"
    /\ config.partition_strategy = "limit"
    /\ config.start_date = None
    /\ config.format \in CROWDTANGLE_OUTPUT_FORMATS
    /\ round = <<>>
    /\ stepped = NoStepResult

\* C20: after a page that did not reach the item limit, the next url is the
\* page's nextPage exactly when nextPage is present and should_go_next of
\* the strategy on the page's items is true; with no nextPage the strategy
\* is called with None, not asked should_go_next, and with should_go_next
\* false it is called with the items; the next url is then the query the
\* strategy gave, or None.
C20_NextPageIffPresentAndGoNext ==
    [][(ipc = "loop" /\ PageRound(round') /\ Len(round') >= 2) =>
          LET has_next == response'.pagination = "next"
              go == should_go_next(strategy, last_page').value
          IN  /\ last_page' = response'.items
              /\ (has_next /\ go) =>
                    /\ round' = <<"step:page", "should_go_next:True">>
                    /\ url' = response'.next_page
                    /\ url'.kind = "next"
              /\ (has_next /\ ~go) =>
                    /\ round' = <<"step:page", "should_go_next:False",
                                  "call(items)">>
                    /\ url'.kind \in {"query", "none"}
              /\ ~has_next =>
                    /\ round' = <<"step:page", "call(None)">>
                    /\ url' = strategy_call(strategy, TRUE, today).value
                    /\ url'.kind \in {"query", "none"}]_vars

C20_Witness ==
    /\ round = <<"step:page", "should_go_next:False", "call(items)">>
    /\ response.pagination = "next"
    /\ response.next_page.kind = "next"
    /\ last_page = response.items
    /\ Len(last_page) = 2
    /\ strategy.kind = "limit"
    /\ strategy.limit = 1
    /\ url.kind = "query"
    /\ ipc = "loop"

-----------------------------------------------------------------------------
(* The loop test of the iterator, checked under SpecFuse *)

\* C21: the iterator never goes on to a stepper call with a url that is
\* None or that is the url of the stepper call made just before, whether
\* that call returned a page or raised ExhaustedPagination.
C21_NeverStepsNullOrPrecedingUrl ==
    ipc = "loop" => (url # NoneUrl /\ url # step_url)

-----------------------------------------------------------------------------
(* Properties of the Limit strategy, checked under SpecLimit *)

YearOf(date) == ParseInt(SubSeq(date, 1, 4))

\* the calls that ask for a window: the first call, whatever its argument,
\* and every later call with None
WindowCalls ==
    { i \in 1..Len(limit_calls) :
         /\ limit_calls[i].op = "call"
         /\ \/ limit_calls[i].arg = "None"
            \/ \A j \in 1..(i - 1) : limit_calls[j].op # "call" }

\* the k-th year window of the range [start, end], the newest first
YearWindow(start, end, k) ==
    LET y == YearOf(end) - k + 1
    IN  QueryUrl(IF y = YearOf(start) THEN start
                 ELSE Decimal(y, 4) \o JanFirst,
                 IF y = YearOf(end) THEN end
                 ELSE Decimal(y, 4) \o DecLast)

\* C22: a Limit strategy built for [start, end] with ys <= ye gives, at its
\* first call and at the calls with None after it, the ye-ys+1 year windows
\* from the newest to the oldest: Jan 1 00:00:00 to Dec 31 23:59:59 of the
\* year, but the caller's end for the newest and the caller's start for the
\* oldest; every call with None after the oldest window gives None.
C22_YearWindowsNewestFirst ==
    LET start == strategy.years.start_date
        end == strategy.years.end_date
        n == YearOf(end) - YearOf(start) + 1
    IN  /\ Kwargs(start, end) \in LimitKwargs
        /\ \A i \in WindowCalls :
              LET k == Cardinality({ j \in WindowCalls : j <= i })
              IN  limit_calls[i].url =
                     IF k <= n THEN YearWindow(start, end, k) ELSE NoneUrl

C22_Witness ==
    /\ Len(limit_calls) = 5
    /\ WindowCalls = {1, 2, 4, 5}
    /\ limit_calls[3].op = "should_go_next"
    /\ limit_calls[1].url =
          QueryUrl(<<"2", "0", "2", "4">> \o JanFirst,
                   Str_2024_01_08 \o EndOfDay)
    /\ limit_calls[2].url =
          QueryUrl(<<"2", "0", "2", "3">> \o JanFirst,
                   <<"2", "0", "2", "3">> \o DecLast)
    /\ limit_calls[4].url =
          QueryUrl(Str_2022_03_05, <<"2", "0", "2", "2">> \o DecLast)
    /\ limit_calls[5].url = NoneUrl

\* the calls to should_go_next that returned False, up to the i-th call
Refusals(i) ==
    { j \in 1..i : limit_calls[j].op = "should_go_next"
                      /\ ~limit_calls[j].value }

\* C28: on a Limit strategy of limit L >= 1 the count after every call to
\* should_go_next is at least 0 and less than L, the rotation counter of
\* get_detail is the number of calls to should_go_next that returned False
\* so far, and a strategy call, year rotation included, changes neither.
C28_CountBelowLimitShiftsCountRefusals ==
    strategy.limit >= 1 =>
        /\ get_detail(strategy).shifts = Cardinality(Refusals(Len(limit_calls)))
        /\ \A i \in 1..Len(limit_calls) :
              LET e == limit_calls[i]
                  seen_before == IF i = 1 THEN 0 ELSE limit_calls[i - 1].seen
                  shifts_before == IF i = 1 THEN 0
                                   ELSE limit_calls[i - 1].shifts
              IN  IF e.op = "should_go_next"
                  THEN /\ 0 <= e.seen /\ e.seen < strategy.limit
                       /\ e.shifts = Cardinality(Refusals(i))
                  ELSE /\ e.seen = seen_before
                       /\ e.shifts = shifts_before

C28_Witness ==
    /\ strategy.limit = 3
    /\ Len(limit_calls) = 5
    /\ limit_calls[1].op = "should_go_next" /\ limit_calls[1].value
    /\ limit_calls[1].seen = 2
    /\ limit_calls[2].op = "should_go_next" /\ ~limit_calls[2].value
    /\ limit_calls[2].seen = 0 /\ limit_calls[2].shifts = 1
    /\ limit_calls[3].op = "call"
    /\ limit_calls[4].op = "call" /\ limit_calls[4].arg = "None"
    /\ limit_calls[4].url.kind = "query"
    /\ limit_calls[4].url # limit_calls[3].url
    /\ limit_calls[4].shifts = 1
    /\ limit_calls[5].op = "should_go_next" /\ limit_calls[5].seen = 2
    /\ strategy.shifts = 1

-----------------------------------------------------------------------------
(* The identifiers kept from one page to the next, checked under            *)
(* SpecHarvest                                                              *)

IdSet(items) == { items[i].id : i \in 1..Len(items) }

\* the rounds among the first k in which the stepper returned a page
PageRounds(k) == { j \in 1..k : Len(trail[j].page) > 0 }

\* the identifiers of the last page returned in the first k rounds
WindowAfter(k) ==
    IF PageRounds(k) = {} THEN {}
    ELSE IdSet(trail[CHOOSE j \in PageRounds(k) :
                        \A i \in PageRounds(k) : i <= j].page)

\* C23: at every stepper call the identifiers kept are those of all the
\* items of the last page returned before, none before the first page, the
\* rounds of ExhaustedPagination and the strategy calls changing nothing;
\* without item limit a page yields every item whose identifier is not in
\* that one page, the items of older pages included.
C23_WindowIsLastPage ==
    /\ ipc = "loop" => last_items = WindowAfter(Len(trail))
    /\ \A k \in 1..Len(trail) :
          /\ trail[k].before.last_items = WindowAfter(k - 1)
          /\ ~config.has_limit =>
                RawYield(trail[k].out)
                   = Fresh(trail[k].page, WindowAfter(k - 1))

C23_Witness ==
    /\ Len(trail) = 3
    /\ trail[1].page = <<Item(1, DateOf(1))>>
    /\ trail[2].page = <<Item(2, DateOf(2))>>
    /\ trail[3].page = <<Item(1, DateOf(1))>>
    /\ RawYield(trail[1].out) = <<Item(1, DateOf(1))>>
    /\ RawYield(trail[3].out) = <<Item(1, DateOf(1))>>
    /\ trail[3].before.last_items = {2}
    /\ last_items = {1}
    /\ ipc = "loop"

\* C24: a harvest with the Limit strategy, no item limit and no error ends
\* only once a strategy call has returned None, the year windows down to
\* that of the start date all taken.
C24_LimitHarvestEndsOnlyOnNone ==
    (config.partition_strategy = "limit" /\ ~config.has_limit
       /\ ipc = "done") =>
        /\ url = NoneUrl
        /\ strategy.years.at = "done"

-----------------------------------------------------------------------------
(* A harvest against a fixed dataset, checked under SpecDataset *)

\* the rounds on a query the Limit strategy narrowed: the round before
\* ended with should_go_next returning False
NarrowedRounds ==
    { k \in 2..Len(trail) :
         /\ trail[k].before.strategy.kind = "limit"
         /\ trail[k].before.url.kind = "query"
         /\ trail[k].before.strategy.shifts
               > trail[k - 1].before.strategy.shifts }

\* C25: the first page of a query narrowed to the timestamp of the last
\* item seen yields no item that the harvest yielded before the narrowing.
C25_NarrowedQueryYieldsNothingAgain ==
    \A k \in NarrowedRounds :
        \A j \in 1..(k - 1) :
            IdSet(RawYield(trail[k].out)) \cap IdSet(RawYield(trail[j].out))
               = {}

\* a position, the rotation counter of get_detail left out
Masked(p) == [p EXCEPT !.strategy.shifts = 0]

\* the positions of the harvest so far, the one of the round to come included
Positions ==
    [k \in 1..Len(trail) |-> Masked(trail[k].before)]
       \o (IF ipc = "loop"
           THEN <<Masked(Position(url, last_url, last_items, strategy))>>
           ELSE <<>>)

\* C26: a harvest against a fixed dataset never comes back to a position it
\* was in (same url, same previous url, same identifiers kept, same strategy
\* state), from which it would repeat the same rounds for ever.
C26_NeverBackAtSamePosition ==
    \A j \in 1..Len(Positions) :
        \A k \in 1..Len(Positions) :
            j < k => Positions[j] # Positions[k]


\* C27: for every start date given to the Day strategy, a start date later
\* than tomorrow included, the strategy returns null after finitely many
\* calls.  The start dates given are at most MaxBack + 1 days before
\* tomorrow, so that a walk that reaches its start date has returned null
\* by the call MaxBack + 2.
C27_DayWalkReachesStart ==
    (strategy.kind = "day" /\ Len(queries) >= MaxBack + 2) =>
        \E i \in 1..Len(queries) : queries[i] = NoneUrl

\* the hops received whose status line carried a redirect status and that
\* carried a Location header
RedirectHopsWithLocation ==
    { i \in 1..Len(status_lines) :
          status_lines[i] \in REDIRECT_STATUSES /\ location_after[i] }

\* C29: a "location-header" entry is appended only for a Location header of
\* a hop whose own status line carried a redirect status, and at most one
\* for each such hop: a hop of another status appends no entry, whatever
\* came before it.
C29_LocationEntryOnlyForRedirectHop ==
    pc \in {"performing", "returned"} =>
        /\ Cardinality(LocationEntries(stack))
               <= Cardinality(RedirectHopsWithLocation)
        /\ \A k \in LocationEntries(stack) :
               \E i \in RedirectHopsWithLocation :
                   status_lines[i] = stack[k].status

\* C30: with redirect following disabled, the chain of a successful call
\* whose single response is a redirect carrying a Location header is the
\* terminal entry alone.
C30_UnfollowedRedirectHasTerminalEntryOnly ==
    (pc = "returned" /\ ~request.follow_redirects /\ Len(status_lines) = 1) =>
        /\ Len(result.stack) = 1
        /\ LocationEntries(result.stack) = {}

\* C31: with a global item limit L >= 0, the number of items yielded over
\* the whole harvest never exceeds L.  N counts the items collected, each of
\* which is yielded, alone or in its batch, in the round that collects it.
C31_TotalYieldedWithinLimit ==
    config.has_limit => N <= config.limit

====
